---------------------------- MODULE Spec2Model ----------------------------
(***************************************************************************)
(* Model of the pynini tutorial scripts (chapter_2.py .. chapter_5.py).    *)
(* The scripts are straight-line programs over weighted finite-state       *)
(* automata; every statement of a script is one action, and the automaton  *)
(* operations the statements call are operators over an explicit           *)
(* state/arc representation in the tropical semiring.                      *)
(***************************************************************************)
EXTENDS Integers, Sequences, FiniteSets, TLC

(***************************************************************************)
(* Semiring (tropical): zero = +infinity, one = 0, plus = min, times = +.  *)
(* +infinity is the sentinel Zero; finite weights are naturals.            *)
(***************************************************************************)
Zero == -1

One == 0

NO_STATE_ID == -1

Plus(a, b) == IF a = Zero THEN b ELSE IF b = Zero THEN a ELSE IF a <= b THEN a ELSE b

Times(a, b) == IF a = Zero \/ b = Zero THEN Zero ELSE a + b

\* a strictly better than b in the natural order of the tropical semiring
Less(a, b) == a # Zero /\ (b = Zero \/ a < b)

\* a - b for b # Zero, b no worse than a (the residual of a after b is pushed)
Divide(a, b) == IF a = Zero THEN Zero ELSE a - b

RECURSIVE PlusOver(_)
PlusOver(S) == IF S = {} THEN Zero
               ELSE LET x == CHOOSE y \in S : TRUE IN Plus(x, PlusOver(S \ {x}))

(***************************************************************************)
(* Labels are single characters; Eps is the empty label.                   *)
(***************************************************************************)
Eps == "<eps>"

Rep(x, n) == [k \in 1..n |-> x]

RECURSIVE Flatten(_)
Flatten(ss) ==
    IF ss = <<>> THEN <<>>
    ELSE IF Len(ss) = 1 THEN ss[1]
    ELSE Flatten(SubSeq(ss, 1, Len(ss) \div 2))
            \o Flatten(SubSeq(ss, Len(ss) \div 2 + 1, Len(ss)))

Range(f) == {f[x] : x \in DOMAIN f}

\* f itself, its values computed once (a function given by a rule is
\* otherwise computed again at every application)
Table(f) == f @@ <<>>

(***************************************************************************)
(* Automaton store: states 0..ns-1, start (or NO_STATE_ID), a final weight *)
(* per state (Zero = not final) and an ordered list of arcs per state.     *)
(***************************************************************************)
Arc(il, ol, w, nx) == [il |-> il, ol |-> ol, w |-> w, nx |-> nx]

EmptyFst == [ns |-> 0, start |-> NO_STATE_ID, fin |-> <<>>, arcs |-> <<>>]

States(A) == 0 .. (A.ns - 1)

\* fin and arcs are kept as sequences indexed by state + 1
Final(A, q) == A.fin[q + 1]

Arcs(A, q) == A.arcs[q + 1]

\* pynini.accep(s, weight=w): one arc per character, final weight w
Accep(s, w) ==
    [ns    |-> Len(s) + 1,
     start |-> 0,
     fin   |-> [q \in 1..(Len(s) + 1) |-> IF q = Len(s) + 1 THEN w ELSE Zero],
     arcs  |-> [q \in 1..(Len(s) + 1) |->
                  IF q <= Len(s) THEN <<Arc(s[q], s[q], One, q)>> ELSE <<>>]]

\* pynini.cross(x, y): x[k]:y[k] arcs, the longer string paired with epsilon
CrossFst(x, y) ==
    LET n == IF Len(x) >= Len(y) THEN Len(x) ELSE Len(y)
        at(s, q) == IF q <= Len(s) THEN s[q] ELSE Eps
    IN [ns    |-> n + 1,
        start |-> 0,
        fin   |-> [q \in 1..(n + 1) |-> IF q = n + 1 THEN One ELSE Zero],
        arcs  |-> [q \in 1..(n + 1) |->
                     IF q <= n THEN <<Arc(at(x, q), at(y, q), One, q)>> ELSE <<>>]]

ShiftArcs(as, d) == [k \in 1..Len(as) |-> [as[k] EXCEPT !.nx = @ + d]]

\* whether some arc enters the start state (the negation of kInitialAcyclic)
StartHasIncoming(A) ==
    \E q \in States(A) : \E k \in 1..Len(Arcs(A, q)) : Arcs(A, q)[k].nx = A.start

\* Union(&fst1, fst2): the states of B are appended to A; the start of A
\* gets an epsilon arc to the start of B when no arc enters it, otherwise a
\* new start state with epsilon arcs to both is added.
UnionFst(A, B) ==
    IF B.start = NO_STATE_ID THEN A
    ELSE IF A.start = NO_STATE_ID
    THEN [ns    |-> A.ns + B.ns,
          start |-> B.start + A.ns,
          fin   |-> A.fin \o B.fin,
          arcs  |-> A.arcs \o [q \in 1..B.ns |-> ShiftArcs(B.arcs[q], A.ns)]]
    ELSE LET n1   == A.ns
             both == [ns    |-> n1 + B.ns,
                      start |-> A.start,
                      fin   |-> A.fin \o B.fin,
                      arcs  |-> A.arcs \o [q \in 1..B.ns |-> ShiftArcs(B.arcs[q], n1)]]
         IN IF ~StartHasIncoming(A)
            THEN [both EXCEPT !.arcs[A.start + 1] =
                      Append(@, Arc(Eps, Eps, One, B.start + n1))]
            ELSE [ns    |-> both.ns + 1,
                  start |-> both.ns,
                  fin   |-> Append(both.fin, Zero),
                  arcs  |-> Append(both.arcs,
                                   <<Arc(Eps, Eps, One, A.start),
                                     Arc(Eps, Eps, One, B.start + n1)>>)]

(***************************************************************************)
(* Paths of an acyclic automaton, in the order of the path iterator: a     *)
(* depth-first walk from the start that reports a state's own path (when   *)
(* the state is final) before following its arcs in their stored order.    *)
(***************************************************************************)
PathRec(i, o, w) == [i |-> i, o |-> o, w |-> w]

AddLabel(s, l) == IF l = Eps THEN s ELSE Append(s, l)

PathSeq(A) ==
    LET RECURSIVE PathsFrom(_, _, _, _), PathsArcs(_, _, _, _, _)
        PathsFrom(q, i, o, w) ==
            (IF Final(A, q) = Zero THEN <<>> ELSE <<PathRec(i, o, Times(w, Final(A, q)))>>)
            \o PathsArcs(q, 1, i, o, w)
        PathsArcs(q, k, i, o, w) ==
            IF k > Len(Arcs(A, q)) THEN <<>>
            ELSE LET a == Arcs(A, q)[k]
                 IN PathsFrom(a.nx, AddLabel(i, a.il), AddLabel(o, a.ol), Times(w, a.w))
                    \o PathsArcs(q, k + 1, i, o, w)
    IN IF A.start = NO_STATE_ID THEN <<>> ELSE PathsFrom(A.start, <<>>, <<>>, One)

IStrings(ps) == [k \in 1..Len(ps) |-> ps[k].i]

OStrings(ps) == [k \in 1..Len(ps) |-> ps[k].o]

(***************************************************************************)
(* An acyclic automaton with the given paths: a start state and one chain  *)
(* of fresh states per path, the path's weight on the chain's last state.  *)
(* Every path relates strings of equal length, label by label.             *)
(***************************************************************************)
FromPaths(ps) ==
    IF ps = <<>> THEN EmptyFst
    ELSE LET RECURSIVE SumLen(_)
             SumLen(k) == IF k = 0 THEN 0 ELSE SumLen(k - 1) + Len(ps[k].i)
             \* base[k]: the states of the chains before the k-th
             base == [k \in 1..(Len(ps) + 1) |-> SumLen(k - 1)]
             n    == 1 + base[Len(ps) + 1]
             \* the path that owns state q >= 1
             owner == [q \in 1..(n - 1) |->
                         CHOOSE k \in 1..Len(ps) : base[k] < q /\ q <= base[k + 1]]
             arcAt(k, j) == Arc(ps[k].i[j], ps[k].o[j], One, base[k] + j)
             nonEmpty == SelectSeq([k \in 1..Len(ps) |-> k], LAMBDA k : Len(ps[k].i) > 0)
         IN [ns    |-> n,
             start |-> 0,
             fin   |-> [q \in 1..n |->
                          IF q = 1
                          THEN PlusOver({ps[k].w : k \in {j \in 1..Len(ps) : Len(ps[j].i) = 0}})
                          ELSE IF q - 1 = base[owner[q - 1] + 1]
                               THEN ps[owner[q - 1]].w ELSE Zero],
             arcs  |-> [q \in 1..n |->
                          IF q = 1
                          THEN [m \in 1..Len(nonEmpty) |-> arcAt(nonEmpty[m], 1)]
                          ELSE IF q - 1 < base[owner[q - 1] + 1]
                               THEN <<arcAt(owner[q - 1], q - base[owner[q - 1]])>>
                               ELSE <<>>]]

(***************************************************************************)
(* Context-dependent rewrite rules.  A compiled rule is kept as the data   *)
(* cdrewrite was called with: tau = from -> to (one label each), the left  *)
(* context lam and the right context rho (finite sets of strings), whether *)
(* lam is anchored at the beginning of the string ([BOS]), the alphabet of *)
(* sigma_star and the mode ("sim" or "ltr").                               *)
(***************************************************************************)
Rule(from, to, lam, bos, rho, sigma, mode) ==
    [from |-> from, to |-> to, lam |-> lam, bos |-> bos, rho |-> rho,
     sigma |-> sigma, mode |-> mode]

\* The output of the rule on the string s.  Simultaneous application reads
\* both contexts from the input; left-to-right application reads the left
\* context from the output written so far and the right context from the
\* input.
Rewrite(r, s) ==
    LET \* some string of lam ends the part seen (all of it when anchored)
        LeftMatches(seen) ==
            \E l \in r.lam : /\ Len(l) <= Len(seen)
                             /\ SubSeq(seen, Len(seen) - Len(l) + 1, Len(seen)) = l
                             /\ (r.bos => Len(l) = Len(seen))
        \* some string of rho begins the rest of the input
        RightMatches(rest) ==
            \E x \in r.rho : Len(x) <= Len(rest) /\ SubSeq(rest, 1, Len(x)) = x
        RECURSIVE RewriteFrom(_, _)
        \* out is the output for s[1..k-1]
        RewriteFrom(k, out) ==
            IF k > Len(s) THEN out
            ELSE LET left == IF r.mode = "sim" THEN SubSeq(s, 1, k - 1) ELSE out
                     fire == /\ s[k] = r.from
                             /\ LeftMatches(left)
                             /\ RightMatches(SubSeq(s, k + 1, Len(s)))
                 IN RewriteFrom(k + 1, Append(out, IF fire THEN r.to ELSE s[k]))
    IN RewriteFrom(1, <<>>)

\* A @ rule for an acyclic A: every path of A whose output string is in
\* sigma_star, its output rewritten, its weight kept (the rule is
\* unweighted); the empty automaton when no path survives
ComposeRule(A, r) ==
    LET ok == SelectSeq(PathSeq(A), LAMBDA p : \A k \in 1..Len(p.o) : p.o[k] \in r.sigma)
    IN FromPaths([k \in 1..Len(ok) |-> PathRec(ok[k].i, Rewrite(r, ok[k].o), ok[k].w)])

\* project('output'): the output label replaces the input label of every arc
ProjectOutput(A) ==
    [A EXCEPT !.arcs = [q \in 1..A.ns |->
                          [k \in 1..Len(A.arcs[q]) |-> [A.arcs[q][k] EXCEPT !.il = A.arcs[q][k].ol]]]]

\* project('input')
ProjectInput(A) ==
    [A EXCEPT !.arcs = [q \in 1..A.ns |->
                          [k \in 1..Len(A.arcs[q]) |-> [A.arcs[q][k] EXCEPT !.ol = A.arcs[q][k].il]]]]

\* invert(): the input and output labels of every arc are swapped
InvertFst(A) ==
    [A EXCEPT !.arcs = [q \in 1..A.ns |->
                          [k \in 1..Len(A.arcs[q]) |->
                             [A.arcs[q][k] EXCEPT !.il = A.arcs[q][k].ol,
                                                  !.ol = A.arcs[q][k].il]]]]

(***************************************************************************)
(* Shortest distance to a final state, by relaxation to a fixed point      *)
(* (weights are non-negative, so at most ns rounds change anything).       *)
(***************************************************************************)
\* FDist(A)[q + 1]: the weight of the best path from q to a final state
FDist(A) ==
    LET RelaxOnce(d) ==
            [q \in 1..A.ns |->
                Plus(A.fin[q],
                     PlusOver({Times(A.arcs[q][k].w, d[A.arcs[q][k].nx + 1]) :
                                 k \in 1..Len(A.arcs[q])}))]
        RECURSIVE RelaxN(_, _)
        RelaxN(d, n) ==
            LET d2 == Table(RelaxOnce(d))
            IN IF n = 0 \/ d2 = d THEN d ELSE RelaxN(d2, n - 1)
    IN RelaxN(Table(A.fin), A.ns)

\* the weight of the best successful path of A (Zero when there is none)
BestWeight(A) == IF A.start = NO_STATE_ID THEN Zero ELSE FDist(A)[A.start + 1]

(***************************************************************************)
(* The successful paths of weight at most B, in path-iterator order.  A    *)
(* partial path is dropped as soon as its best completion exceeds B, so    *)
(* the walk is finite on a cyclic automaton whose cycles have positive     *)
(* weight.                                                                 *)
(***************************************************************************)
PathsWithin(A, B) ==
    LET RECURSIVE WithinFrom(_, _, _, _, _), WithinArcs(_, _, _, _, _, _)
        \* fd: the shortest distances to a final state
        WithinFrom(fd, q, i, o, w) ==
            (IF Final(A, q) # Zero /\ Times(w, Final(A, q)) <= B
             THEN <<PathRec(i, o, Times(w, Final(A, q)))>> ELSE <<>>)
            \o WithinArcs(fd, q, 1, i, o, w)
        WithinArcs(fd, q, k, i, o, w) ==
            IF k > Len(Arcs(A, q)) THEN <<>>
            ELSE LET a    == Arcs(A, q)[k]
                     best == Times(Times(w, a.w), fd[a.nx + 1])
                 IN (IF best # Zero /\ best <= B
                     THEN WithinFrom(fd, a.nx, AddLabel(i, a.il), AddLabel(o, a.ol),
                                     Times(w, a.w))
                     ELSE <<>>)
                    \o WithinArcs(fd, q, k + 1, i, o, w)
    IN IF A.start = NO_STATE_ID THEN <<>>
       ELSE WithinFrom(FDist(A), A.start, <<>>, <<>>, One)

(***************************************************************************)
(* Determinization: weighted subset construction over an epsilon-free      *)
(* automaton, an arc's label being its <<input, output>> pair.  A state of *)
(* the result is a set of <<state, residual>> pairs; states are numbered   *)
(* in the order they are discovered and the arcs of a state are ordered by *)
(* label.                                                                  *)
(***************************************************************************)
\* the labels of the model in byte order
Chars == <<"!", "A", "G", "Y", "a", "b", "c", "d", "e", "f", "g", "h", "i", "j", "k", "l",
          "m", "n", "o", "p", "q", "r", "s", "t", "u", "v", "w", "x", "y", "z",
          "á", "ä", "é", "í", "ñ", "ó", "ö", "ú", "ü">>

IndexOf(seq, x) == CHOOSE n \in 1..Len(seq) : seq[n] = x

SeqHas(seq, x) == \E n \in 1..Len(seq) : seq[n] = x

\* One step of the subset construction of A: the arcs of the k-th subset of
\* subs (out), and subs with the subsets these arcs reach for the first
\* time (subs)
DetStep(A, subs, k) ==
    LET \* <<state, weight>> of every l-arc leaving the subset S, residual
        \* included
        Moves(S, l) ==
            UNION {{<<Arcs(A, e[1])[n].nx, Times(e[2], Arcs(A, e[1])[n].w)>> :
                      n \in {j \in 1..Len(Arcs(A, e[1])) :
                               /\ Arcs(A, e[1])[j].il = l[1]
                               /\ Arcs(A, e[1])[j].ol = l[2]}} : e \in S}
        MoveWeight(S, l) == PlusOver({m[2] : m \in Moves(S, l)})
        \* the subset reached over l: per destination the best residual,
        \* less the weight the arc itself carries
        MoveTarget(S, l) ==
            LET mv == Moves(S, l)
                w  == MoveWeight(S, l)
            IN {<<q, Divide(PlusOver({m[2] : m \in {x \in mv : x[1] = q}}), w)>> :
                  q \in {m[1] : m \in mv}}
        \* the label pairs leaving S, ordered by input label, then by output
        \* label
        SubsetLabels(S) ==
            LET ls == UNION {{<<Arcs(A, e[1])[n].il, Arcs(A, e[1])[n].ol>> :
                                n \in 1..Len(Arcs(A, e[1]))} : e \in S}
                ins == SelectSeq(Chars, LAMBDA c : \E l \in ls : l[1] = c)
            IN Flatten([n \in 1..Len(ins) |->
                          LET outs == SelectSeq(Chars, LAMBDA c : <<ins[n], c>> \in ls)
                          IN [m \in 1..Len(outs) |-> <<ins[n], outs[m]>>]])
        \* the arcs of subset S over the label pairs labs
        DetArcs(S, labs) ==
            CHOOSE r \in
                UNION {UNION {{[subs |-> all,
                                out  |-> [j \in 1..Len(labs) |->
                                            Arc(labs[j][1], labs[j][2], MoveWeight(S, labs[j]),
                                                IndexOf(all, Ts[j]) - 1)]] :
                                 all \in {subs \o [m \in 1..Len(first) |-> Ts[first[m]]]}} :
                              first \in {SelectSeq([j \in 1..Len(labs) |-> j],
                                            LAMBDA j : /\ ~SeqHas(subs, Ts[j])
                                                       /\ \A m \in 1..(j - 1) : Ts[m] # Ts[j])}} :
                       Ts \in {Table([j \in 1..Len(labs) |-> MoveTarget(S, labs[j])])}} : TRUE
    IN CHOOSE r \in {DetArcs(subs[k], labs) : labs \in {SubsetLabels(subs[k])}} : TRUE

\* the determinized automaton of A with the subsets subs and their arcs
DetResult(A, subs, arcs) ==
    [ns    |-> Len(subs),
     start |-> 0,
     fin   |-> [q \in 1..Len(subs) |->
                  PlusOver({Times(e[2], Final(A, e[1])) : e \in subs[q]})],
     arcs  |-> arcs]

\* Determinize(ifst, &ofst) without pruning: the subsets are worked off in
\* the order they are met, from that of the start state
DeterminizeFull(A) ==
    LET RECURSIVE DetLoop(_, _, _)
        DetLoop(subs, k, arcs) ==
            IF k > Len(subs) THEN DetResult(A, subs, arcs)
            ELSE CHOOSE r \in {DetLoop(d.subs, k + 1, Append(arcs, d.out)) :
                                 d \in {DetStep(A, subs, k)}} : TRUE
    IN IF A.start = NO_STATE_ID THEN EmptyFst
       ELSE DetLoop(<<{<<A.start, One>>}>>, 1, <<>>)

(***************************************************************************)
(* Pruning.  States are taken best first (by the weight of the best path   *)
(* through them); an arc is kept when the best path over it is within      *)
(* wthresh of the best path overall and the result has fewer than nstate   *)
(* states.  Zero as wthresh and NO_STATE_ID as nstate switch a bound off.  *)
(***************************************************************************)
PruneFst(D, wthresh, nstate) ==
    LET \* fd: the shortest distances to a final state; limit: the weight
        \* no kept path exceeds
        \* the state of the queue with the best path through it (lowest id
        \* on ties)
        BestQueued(fd, p) ==
            CHOOSE s \in p.queue :
                \A u \in p.queue :
                    LET ks == Times(p.idist[s + 1], fd[s + 1])
                        ku == Times(p.idist[u + 1], fd[u + 1])
                    IN Less(ks, ku) \/ (ks = ku /\ s <= u)
        AtCeiling(out) == nstate # NO_STATE_ID /\ out.ns >= nstate
        RECURSIVE PruneArcs(_, _, _, _, _)
        PruneArcs(fd, limit, s, k, p) ==
            IF k > Len(Arcs(D, s)) THEN p
            ELSE LET a    == Arcs(D, s)[k]
                     thru == Times(Times(p.idist[s + 1], a.w), fd[a.nx + 1])
                 IN IF Less(limit, thru) \/ AtCeiling(p.out)
                    THEN PruneArcs(fd, limit, s, k + 1, p)
                    ELSE LET fresh == p.copy[a.nx + 1] = NO_STATE_ID
                             tgt   == IF fresh THEN p.out.ns ELSE p.copy[a.nx + 1]
                             out1  == IF fresh
                                      THEN [p.out EXCEPT !.ns = @ + 1,
                                                         !.fin = Append(@, Zero),
                                                         !.arcs = Append(@, <<>>)]
                                      ELSE p.out
                             out2  == [out1 EXCEPT !.arcs[p.copy[s + 1] + 1] =
                                          Append(@, [a EXCEPT !.nx = tgt])]
                             reach == Times(p.idist[s + 1], a.w)
                             idist == IF Less(reach, p.idist[a.nx + 1])
                                      THEN [p.idist EXCEPT ![a.nx + 1] = reach]
                                      ELSE p.idist
                             queue == IF a.nx \in p.visited THEN p.queue
                                      ELSE p.queue \cup {a.nx}
                         IN PruneArcs(fd, limit, s, k + 1,
                                      [p EXCEPT !.copy[a.nx + 1] = tgt, !.out = out2,
                                                !.idist = idist, !.queue = queue])
        RECURSIVE PruneLoop(_, _, _)
        PruneLoop(fd, limit, p) ==
            IF p.queue = {} THEN p.out
            ELSE LET s   == BestQueued(fd, p)
                     tot == Times(p.idist[s + 1], Final(D, s))
                     p1  == [p EXCEPT !.queue = @ \ {s}, !.visited = @ \cup {s},
                                      !.out.fin[p.copy[s + 1] + 1] =
                                          IF Less(limit, tot) THEN Zero ELSE Final(D, s)]
                 IN PruneLoop(fd, limit, PruneArcs(fd, limit, s, 1, p1))
        Start(fd) ==
            IF fd[D.start + 1] = Zero THEN EmptyFst
            ELSE PruneLoop(fd, Times(fd[D.start + 1], wthresh),
                [copy    |-> [q \in 1..D.ns |-> IF q = D.start + 1 THEN 0 ELSE NO_STATE_ID],
                 idist   |-> [q \in 1..D.ns |-> IF q = D.start + 1 THEN One ELSE Zero],
                 visited |-> {},
                 queue   |-> {D.start},
                 out     |-> [ns |-> 1, start |-> 0, fin |-> <<Zero>>, arcs |-> <<<<>>>>]])
    IN IF D.start = NO_STATE_ID THEN EmptyFst ELSE Start(FDist(D))

\* pynini.determinize(fst, nstate=..., weight=...)
Determinize(A, wthresh, nstate) ==
    IF wthresh = Zero /\ nstate = NO_STATE_ID THEN DeterminizeFull(A)
    ELSE CHOOSE P \in {PruneFst(D, wthresh, nstate) : D \in {DeterminizeFull(A)}} : TRUE


(***************************************************************************)
(* Accessible states and cycles.                                           *)
(***************************************************************************)
Succ(A, q) == {Arcs(A, q)[k].nx : k \in 1..Len(Arcs(A, q))}

RECURSIVE ReachFrom(_, _)
\* the states reachable from the states of S
ReachFrom(A, S) ==
    LET S2 == S \cup UNION {Succ(A, q) : q \in S}
    IN IF S2 = S THEN S ELSE ReachFrom(A, S2)

\* the states on a successful path
Useful(A) ==
    IF A.start = NO_STATE_ID THEN {}
    ELSE LET fd == FDist(A) IN {q \in ReachFrom(A, {A.start}) : fd[q + 1] # Zero}

RECURSIVE Peel(_, _)
\* S without the states from which every path inside S ends
Peel(A, S) ==
    LET S2 == {q \in S : Succ(A, q) \cap S # {}}
    IN IF S2 = S THEN S ELSE Peel(A, S2)

\* a cycle on a state that the start reaches and that reaches a final state
IsCyclic(A) == Peel(A, Useful(A)) # {}

(***************************************************************************)
(* Shortest paths.  ShortestPath(fst, nshortest=n, unique=u) keeps n paths *)
(* of least weight; which of several paths of equal weight it keeps is     *)
(* implementation-defined, so the operator gives every possible outcome.   *)
(* Cycles must have positive weight.                                       *)
(***************************************************************************)
ShortestOutcomes(A, n, unique) ==
    LET RECURSIVE Dedupe(_, _)
        \* ps without the paths whose output string an earlier or better
        \* path has
        Dedupe(ps, k) ==
            IF k > Len(ps) THEN <<>>
            ELSE LET p    == ps[k]
                     dupe == \E j \in 1..Len(ps) :
                                /\ j # k
                                /\ ps[j].o = p.o
                                /\ (ps[j].w < p.w \/ (ps[j].w = p.w /\ j < k))
                 IN (IF dupe THEN <<>> ELSE <<p>>) \o Dedupe(ps, k + 1)
        Candidates(B) == IF unique THEN Dedupe(PathsWithin(A, B), 1) ELSE PathsWithin(A, B)
        \* an upper bound of the weight of every path that repeats no arc
        WeightCap ==
            LET ws == [q \in 1..A.ns |->
                         Flatten([k \in 1..Len(A.arcs[q]) |-> <<A.arcs[q][k].w>>])
                         \o (IF A.fin[q] = Zero THEN <<>> ELSE <<A.fin[q]>>)]
                all == Flatten(ws)
                RECURSIVE Sum(_, _)
                Sum(s, k) == IF k = 0 THEN 0 ELSE s[k] + Sum(s, k - 1)
            IN Sum(all, Len(all))
        RECURSIVE FindBound(_, _)
        \* the paths of the least weight B with n candidate paths (or with
        \* them all: no path that repeats no arc is heavier than cap)
        FindBound(B, cap) ==
            LET c == Candidates(B)
            IN IF Len(c) >= n \/ (cap # Zero /\ B >= cap) THEN c
               ELSE FindBound(B + 1, cap)
        \* every choice of the n lightest of the paths c
        Choices(c) ==
            LET k    == IF Len(c) < n THEN Len(c) ELSE n
                pick == {S \in SUBSET (1..Len(c)) :
                           /\ Cardinality(S) = k
                           /\ \A x \in S, y \in (1..Len(c)) \ S : c[x].w <= c[y].w}
            IN {LET idx == SelectSeq([j \in 1..Len(c) |-> j], LAMBDA j : j \in S)
                IN [m \in 1..Len(idx) |-> c[idx[m]]] : S \in pick}
    IN IF BestWeight(A) = Zero \/ n = 0 THEN {<<>>}
       ELSE Choices(FindBound(BestWeight(A), IF IsCyclic(A) THEN Zero ELSE WeightCap))

(***************************************************************************)
(* Connect and epsilon removal.                                            *)
(***************************************************************************)
\* the number of states of keep below q
Rank(keep, q) == Cardinality({x \in keep : x < q})

\* Connect(&fst): only the states on a successful path stay, renumbered in
\* their order
Connect(A) ==
    LET keep == Useful(A)
        old  == SelectSeq([q \in 1..A.ns |-> q - 1], LAMBDA q : q \in keep)
    IN IF A.start \notin keep THEN EmptyFst
       ELSE [ns    |-> Len(old),
             start |-> Rank(keep, A.start),
             fin   |-> [n \in 1..Len(old) |-> Final(A, old[n])],
             arcs  |-> [n \in 1..Len(old) |->
                          LET as == SelectSeq(Arcs(A, old[n]), LAMBDA a : a.nx \in keep)
                          IN [k \in 1..Len(as) |->
                                [as[k] EXCEPT !.nx = Rank(keep, as[k].nx)]]]]

IsEpsArc(a) == a.il = Eps /\ a.ol = Eps

\* arcs with the same labels and destination are merged, their weights added
\* in the semiring
MergeArcs(as, k) ==
    LET same(j, m) == as[j].il = as[m].il /\ as[j].ol = as[m].ol /\ as[j].nx = as[m].nx
        \* the first arc of every group of arcs alike, from the k-th on
        first == SelectSeq([j \in 1..Len(as) |-> j],
                           LAMBDA j : j >= k /\ \A m \in 1..(j - 1) : ~same(m, j))
    IN [n \in 1..Len(first) |->
          [as[first[n]] EXCEPT
              !.w = PlusOver({as[m].w : m \in {x \in 1..Len(as) : same(x, first[n])}})]]

\* rmepsilon(): the non-epsilon arcs and the final weights of the states in
\* the epsilon closure move to the state itself; then Connect.  An automaton
\* without epsilon arcs is left as it is.
RmEpsilon(A) ==
    LET EpsRelax(d) ==
            [u \in 1..A.ns |->
                Plus(d[u], PlusOver(UNION {{Times(d[v], A.arcs[v][k].w) :
                                              k \in {j \in 1..Len(A.arcs[v]) :
                                                       /\ IsEpsArc(A.arcs[v][j])
                                                       /\ A.arcs[v][j].nx = u - 1}} :
                                           v \in 1..A.ns}))]
        RECURSIVE EpsRelaxN(_, _)
        EpsRelaxN(d, n) ==
            LET d2 == Table(EpsRelax(d))
            IN IF n = 0 \/ d2 = d THEN d ELSE EpsRelaxN(d2, n - 1)
        \* cl[q][u]: the best weight of an epsilon path from q - 1 to u - 1
        Closures ==
            Table([q \in 1..A.ns |->
                     EpsRelaxN(Table([u \in 1..A.ns |-> IF u = q THEN One ELSE Zero]), A.ns)])
        moved(cl, q) ==
            Flatten([u \in 1..A.ns |->
                IF cl[q][u] = Zero THEN <<>>
                ELSE LET as == SelectSeq(A.arcs[u], LAMBDA a : ~IsEpsArc(a))
                     IN [k \in 1..Len(as) |-> [as[k] EXCEPT !.w = Times(cl[q][u], @)]]])
        Rewired(cl) ==
            [A EXCEPT
                !.fin  = [q \in 1..A.ns |->
                            PlusOver({Times(cl[q][u], A.fin[u]) : u \in 1..A.ns})],
                !.arcs = [q \in 1..A.ns |-> MergeArcs(moved(cl, q), 1)]]
    IN IF \A q \in 1..A.ns : \A k \in 1..Len(A.arcs[q]) : ~IsEpsArc(A.arcs[q][k]) THEN A
       ELSE Connect(Rewired(Closures))

(***************************************************************************)
(* Membership: whether A accepts the string s on its input side, by        *)
(* running the set of current states over s.                               *)
(***************************************************************************)
Accepts(A, s) ==
    LET EpsArcsOf(q) == {j \in 1..Len(Arcs(A, q)) : Arcs(A, q)[j].il = Eps}
        RECURSIVE EpsReach(_)
        \* the states an epsilon-input path reaches from Q
        EpsReach(Q) ==
            LET Q2 == Q \cup UNION {{Arcs(A, q)[k].nx : k \in EpsArcsOf(q)} : q \in Q}
            IN IF Q2 = Q THEN Q ELSE EpsReach(Q2)
        StepOver(Q, l) ==
            EpsReach(UNION {{Arcs(A, q)[k].nx :
                               k \in {j \in 1..Len(Arcs(A, q)) : Arcs(A, q)[j].il = l}} :
                            q \in Q})
        RECURSIVE RunFrom(_, _)
        RunFrom(Q, k) == IF k > Len(s) THEN Q ELSE RunFrom(StepOver(Q, s[k]), k + 1)
    IN /\ A.start # NO_STATE_ID
       /\ \E q \in RunFrom(EpsReach({A.start}), 1) : Final(A, q) # Zero

(***************************************************************************)
(* Optimization: epsilon removal, determinization of an acyclic automaton  *)
(* that is not deterministic, and minimization: states with the same final *)
(* weight and the same arcs into the same classes are merged, parallel     *)
(* arcs are summed.                                                        *)
(***************************************************************************)
\* no state has two arcs with the same label pair
IsDeterministic(A) ==
    \A q \in 1..A.ns : \A j, k \in 1..Len(A.arcs[q]) :
        (j # k) => ~(A.arcs[q][j].il = A.arcs[q][k].il /\ A.arcs[q][j].ol = A.arcs[q][k].ol)

Minimize(A) ==
    LET \* what tells the states of a class apart: the final weight and the
        \* arcs, each with the class of its destination
        Signature(cls, q) ==
            <<A.fin[q], {<<A.arcs[q][k].il, A.arcs[q][k].ol, A.arcs[q][k].w,
                           cls[A.arcs[q][k].nx + 1]>> : k \in 1..Len(A.arcs[q])}>>
        Same(cls, u, q) == cls[u] = cls[q] /\ Signature(cls, u) = Signature(cls, q)
        RECURSIVE Refine(_, _)
        \* cls[q]: the first state of the class of state q - 1
        Refine(cls, n) ==
            LET c2 == Table([q \in 1..A.ns |->
                         CHOOSE u \in 1..q :
                             Same(cls, u, q) /\ \A v \in 1..(u - 1) : ~Same(cls, v, q)])
            IN IF n = 0 \/ c2 = cls THEN cls ELSE Refine(c2, n - 1)
        cls  == Refine(Table([q \in 1..A.ns |-> 1]), A.ns)
        keep == {cls[q] - 1 : q \in 1..A.ns}
        old  == SelectSeq([q \in 1..A.ns |-> q], LAMBDA q : cls[q] = q)
    IN IF A.ns = 0 THEN A
       ELSE [ns    |-> Len(old),
             start |-> Rank(keep, cls[A.start + 1] - 1),
             fin   |-> [n \in 1..Len(old) |-> A.fin[old[n]]],
             arcs  |-> [n \in 1..Len(old) |->
                          MergeArcs([k \in 1..Len(A.arcs[old[n]]) |->
                                       [A.arcs[old[n]][k] EXCEPT
                                           !.nx = Rank(keep, cls[@ + 1] - 1)]], 1)]]

\* fst.optimize()
Optimize(A) ==
    CHOOSE m \in {Minimize(d) :
                    d \in {IF IsDeterministic(r) \/ IsCyclic(r) THEN r
                           ELSE DeterminizeFull(r) : r \in {RmEpsilon(A)}}} : TRUE

(***************************************************************************)
(* Rational operations, as the destructive library functions compute them  *)
(* on the first operand; a constructive call applies them to a copy.       *)
(***************************************************************************)
\* Concat(&fst1, fst2): the states of B are appended; each final state of A
\* gets an epsilon arc carrying its final weight to the start of B and is
\* final no more
ConcatFst(A, B) ==
    IF A.start = NO_STATE_ID \/ B.start = NO_STATE_ID THEN EmptyFst
    ELSE [ns    |-> A.ns + B.ns,
          start |-> A.start,
          fin   |-> [q \in 1..A.ns |-> Zero] \o B.fin,
          arcs  |-> [q \in 1..A.ns |->
                       IF A.fin[q] = Zero THEN A.arcs[q]
                       ELSE Append(A.arcs[q], Arc(Eps, Eps, A.fin[q], B.start + A.ns))]
                    \o [q \in 1..B.ns |-> ShiftArcs(B.arcs[q], A.ns)]]

\* Closure(&fst, type): every final state gets an epsilon arc back to the
\* start; the star closure adds a new final start state before the old one
ClosureFst(A, star) ==
    LET back == [q \in 1..A.ns |->
                   IF A.fin[q] = Zero \/ A.start = NO_STATE_ID THEN A.arcs[q]
                   ELSE Append(A.arcs[q], Arc(Eps, Eps, A.fin[q], A.start))]
    IN IF ~star THEN [A EXCEPT !.arcs = back]
       ELSE [ns    |-> A.ns + 1,
             start |-> A.ns,
             fin   |-> Append(A.fin, One),
             arcs  |-> Append(back, IF A.start = NO_STATE_ID THEN <<>>
                                    ELSE <<Arc(Eps, Eps, One, A.start)>>)]

\* fst.ques: the automaton or the empty string
Ques(A) == UnionFst(A, Accep(<<>>, One))

\* the upper bound of fst ** (n, ...)
Ellipsis == -1

\* fst ** (lo, hi): lo copies of A, then up to hi - lo more (or any number)
Pow(A, lo, hi) ==
    LET RECURSIVE ConcatN(_), UpTo(_)
        ConcatN(n) == IF n = 0 THEN Accep(<<>>, One)
                      ELSE IF n = 1 THEN A ELSE ConcatFst(A, ConcatN(n - 1))
        \* from 0 to k copies of A
        UpTo(k) == IF k = 0 THEN Accep(<<>>, One) ELSE Ques(ConcatFst(A, UpTo(k - 1)))
    IN IF hi = Ellipsis THEN ConcatFst(ConcatN(lo), ClosureFst(A, TRUE))
       ELSE IF hi = lo THEN ConcatN(lo)
       ELSE ConcatFst(ConcatN(lo), UpTo(hi - lo))

\* Reverse(ifst, &ofst): a new start state 0 with an epsilon arc to every
\* final state, state q becomes q + 1, every arc is turned round and the
\* old start is the only final state
ReverseFst(A) ==
    IF A.start = NO_STATE_ID THEN EmptyFst
    ELSE LET finals == SelectSeq([q \in 1..A.ns |-> q], LAMBDA q : A.fin[q] # Zero)
             into(u) == Flatten([q \in 1..A.ns |->
                            LET as == SelectSeq(A.arcs[q], LAMBDA a : a.nx = u - 1)
                            IN [k \in 1..Len(as) |-> [as[k] EXCEPT !.nx = q]]])
         IN [ns    |-> A.ns + 1,
             start |-> 0,
             fin   |-> <<Zero>> \o [q \in 1..A.ns |-> IF q = A.start + 1 THEN One ELSE Zero],
             arcs  |-> <<[k \in 1..Len(finals) |->
                            Arc(Eps, Eps, A.fin[finals[k]], finals[k])]>>
                       \o [u \in 1..A.ns |-> into(u)]]

(***************************************************************************)
(* Composition: the pairs of states reachable from the pair of starts,     *)
(* numbered as they are discovered.  An arc of A meets an arc of B when    *)
(* A's output label is B's input label; an arc with an epsilon on the      *)
(* matching side moves alone.                                              *)
(***************************************************************************)
\* Compose(ifst1, ifst2, &ofst), trimmed
ComposeFst(A, B) ==
    LET \* the arcs of the pair <<p, q>>, each with its target pair in nx
        PairArcs(p, q) ==
            Flatten([k \in 1..Len(Arcs(A, p)) |->
                LET a == Arcs(A, p)[k]
                IN IF a.ol = Eps THEN <<Arc(a.il, Eps, a.w, <<a.nx, q>>)>>
                   ELSE LET bs == SelectSeq(Arcs(B, q), LAMBDA b : b.il = a.ol)
                        IN [j \in 1..Len(bs) |->
                              Arc(a.il, bs[j].ol, Times(a.w, bs[j].w), <<a.nx, bs[j].nx>>)]])
            \o LET es == SelectSeq(Arcs(B, q), LAMBDA b : b.il = Eps)
               IN [j \in 1..Len(es) |-> Arc(Eps, es[j].ol, es[j].w, <<p, es[j].nx>>)]
        \* the targets of the arcs of pairs[k..], in the order of the pairs
        \* and of their arcs
        Targets(pairs, k) ==
            Flatten([n \in 1..(Len(pairs) - k + 1) |->
                       [j \in 1..Len(PairArcs(pairs[k + n - 1][1], pairs[k + n - 1][2])) |->
                          PairArcs(pairs[k + n - 1][1], pairs[k + n - 1][2])[j].nx]])
        \* the first occurrences in ts, in their order
        Firsts(ts) ==
            CHOOSE r \in {[n \in 1..Len(first) |-> ts[first[n]]] :
                            first \in {SelectSeq([j \in 1..Len(ts) |-> j],
                                          LAMBDA j : \A m \in 1..(j - 1) : ts[m] # ts[j])}} :
                TRUE
        RECURSIVE ComposeLoop(_, _)
        \* the pairs met from <<A.start, B.start>>, in the order they are met;
        \* pairs[k..] are the pairs whose arcs are still to be followed
        ComposeLoop(pairs, k) ==
            IF k > Len(pairs) THEN pairs
            ELSE CHOOSE r \in
                    {ComposeLoop(pairs \o Firsts(SelectSeq(ts, LAMBDA x : x \notin seen)),
                                 Len(pairs) + 1) :
                       ts \in {Targets(pairs, k)}, seen \in {Range(pairs)}} : TRUE
        \* the arcs as, their targets numbered as in pairs
        Numbered(pairs, as) ==
            [j \in 1..Len(as) |-> [as[j] EXCEPT !.nx = IndexOf(pairs, as[j].nx) - 1]]
        Product(pairs) ==
            [ns    |-> Len(pairs),
             start |-> 0,
             fin   |-> [n \in 1..Len(pairs) |->
                          Times(Final(A, pairs[n][1]), Final(B, pairs[n][2]))],
             arcs  |-> [n \in 1..Len(pairs) |->
                          Numbered(pairs, PairArcs(pairs[n][1], pairs[n][2]))]]
    IN IF A.start = NO_STATE_ID \/ B.start = NO_STATE_ID THEN EmptyFst
       ELSE Connect(Product(ComposeLoop(<<<<A.start, B.start>>>>, 1)))

(***************************************************************************)
(* Difference of an acceptor A and an unweighted acceptor B: A composed    *)
(* with the complement of B, B made epsilon-free and deterministic first.  *)
(***************************************************************************)
\* the complement of the deterministic acceptor D over the labels ls: a
\* sink state takes every missing arc, final and non-final states swap
Complement(D, ls) ==
    LET n    == IF D.start = NO_STATE_ID THEN 0 ELSE D.ns
        sink == n
        missing(q) == SelectSeq(ls, LAMBDA c : \A k \in 1..Len(D.arcs[q]) :
                                                   D.arcs[q][k].il # c)
    IN [ns    |-> n + 1,
        start |-> IF n = 0 THEN sink ELSE D.start,
        fin   |-> [q \in 1..(n + 1) |->
                     IF q <= n /\ D.fin[q] # Zero THEN Zero ELSE One],
        arcs  |-> [q \in 1..(n + 1) |->
                     IF q <= n
                     THEN D.arcs[q] \o [k \in 1..Len(missing(q)) |->
                                          Arc(missing(q)[k], missing(q)[k], One, sink)]
                     ELSE [k \in 1..Len(ls) |-> Arc(ls[k], ls[k], One, sink)]]]

\* pynini.difference(fst1, fst2), fst1 - fst2
DifferenceFst(A, B) ==
    LET \* the labels on the arcs of A, in byte order
        ls == SelectSeq(Chars, LAMBDA c : \E q \in 1..A.ns : \E k \in 1..Len(A.arcs[q]) :
                                              A.arcs[q][k].il = c)
    IN ComposeFst(A, Complement(DeterminizeFull(RmEpsilon(B)), ls))

(***************************************************************************)
(* pynini.lib.rewrite.  A call returns [err, val]: err is "" when the call *)
(* returns val, and names the exception otherwise.                         *)
(***************************************************************************)
Ok(v) == [err |-> "", val |-> v]

Raise(e) == [err |-> e, val |-> <<>>]

\* rewrite_lattice: compose, fail on an empty result, project to the
\* output and remove epsilons
RewriteLattice(A, r) ==
    LET l == ComposeRule(A, r)
    IN IF l.start = NO_STATE_ID THEN Raise("CompositionFailure")
       ELSE Ok(RmEpsilon(ProjectOutput(l)))

\* lattice_to_dfa: pruned determinization, to the optimal paths only when
\* optimal_only
LatticeToDfa(l, optimal_only) ==
    Determinize(l, IF optimal_only THEN One ELSE Zero, 256 + 4 * l.ns)

\* lattice_to_one_top_string: the first path's string; an error when the
\* path iterator is not done after one step
LatticeToOneTopString(d) ==
    LET ps == PathSeq(d)
    IN IF Len(ps) > 1 THEN Raise("AmbiguousTie") ELSE Ok(ps[1].o)

OneTopRewrite(A, r) ==
    LET l == RewriteLattice(A, r)
    IN IF l.err # "" THEN l ELSE LatticeToOneTopString(LatticeToDfa(l.val, TRUE))

\* the possible results of top_rewrite: the string of a shortest path
TopRewrites1(A, r) ==
    LET l == RewriteLattice(A, r)
    IN IF l.err # "" THEN {l}
       ELSE {Ok(ps[1].o) : ps \in ShortestOutcomes(l.val, 1, FALSE)}

OptimalRewrites(A, r) ==
    LET l == RewriteLattice(A, r)
    IN IF l.err # "" THEN l ELSE Ok(OStrings(PathSeq(LatticeToDfa(l.val, TRUE))))

\* rewrites: every output string
Rewrites(A, r) ==
    LET l == RewriteLattice(A, r)
    IN IF l.err # "" THEN l ELSE Ok(OStrings(PathSeq(LatticeToDfa(l.val, FALSE))))

\* matches: whether the output lattice of x under the rule accepts y
Matches(x, y, r) ==
    LET l == RewriteLattice(Accep(x, One), r)
    IN IF l.err # "" THEN l ELSE Ok(Accepts(l.val, y))

(***************************************************************************)
(* chapter_5.py, run_basics.  The sections of the function share no data   *)
(* (each assigns its own input), so a run follows one section: sec is the  *)
(* section, pc the line about to run.                                      *)
(*   1: lines 50-71   shortest output strings under rule3 and rule8        *)
(*   2: lines 77-95   pruned determinization of a lattice                  *)
(*   3: lines 126-128 one_top_rewrite                                      *)
(*   4: lines 132-134 optimal_rewrites                                     *)
(*   5: lines 140-141 matches                                              *)
(* The literals a section starts from are drawn from small sets that       *)
(* contain them or, where the script's are too long, shorter ones of the   *)
(* same shape.                                                             *)
(***************************************************************************)
VARIABLES sec, pc, string, lattice3, lattice8, ostring3, ostring8, ostrings,
          lattice, state_threshold, det_lattice, there_are_ties, top,
          rewrites, matches,
          heap, env, paths, hist

\* the locals of run_basics
locals5 == <<string, lattice3, lattice8, ostring3, ostring8, ostrings,
             lattice, state_threshold, det_lattice, there_are_ties, top,
             rewrites, matches>>

\* the automaton objects of the other scripts: heap[o] is the automaton of
\* object o, env.x the object the local x is bound to (0: unbound), paths a
\* path iterator; hist remembers inputs for the properties
objects == <<heap, env, paths, hist>>

vars == <<sec, pc, locals5, objects>>

\* a local that is not assigned yet
None == "None"

\* the longest run of one letter in an input
MaxRep == 5

\* the largest state ceiling tried besides the script's own
MaxNState == 6

\* the largest final weight of an input string
MaxW == 4

sigma_star == {"a", "b", "c"}

\* rule (3) with the left context left empty
rule3_no_left == Rule("b", "a", {<<>>}, FALSE, {<<"b">>}, sigma_star, "sim")

\* b -> a / b __ b, simultaneous
rule3 == Rule("b", "a", {<<"b">>}, FALSE, {<<"b">>}, sigma_star, "sim")

\* rule (8) with the left context 'b' in place of '[BOS]b'
rule8_no_bos == Rule("b", "a", {<<"b">>}, FALSE, {<<"b">>}, sigma_star, "ltr")

\* b -> a / ^b __ b, left to right
rule8 == Rule("b", "a", {<<"b">>}, TRUE, {<<"b">>}, sigma_star, "ltr")

\* b -> a / b __ b, left to right
rule == Rule("b", "a", {<<"b">>}, FALSE, {<<"b">>}, sigma_star, "ltr")

bbb == <<"b", "b", "b">>

bbbb == <<"b", "b", "b", "b">>

bab == <<"b", "a", "b">>

aba == <<"a", "b", "a">>

aa == <<"a", "a">>

InitB ==
    /\ sec \in 1..5
    /\ pc = CASE sec = 1 -> "L50" [] sec = 2 -> "L77" [] sec = 3 -> "L126"
              [] sec = 4 -> "L132" [] OTHER -> "L140"
    /\ string = None /\ lattice3 = None /\ lattice8 = None
    /\ ostring3 = None /\ ostring8 = None /\ ostrings = None
    /\ lattice = None /\ state_threshold = None /\ det_lattice = None
    /\ there_are_ties = None /\ top = None /\ rewrites = None /\ matches = None
    /\ heap = <<>> /\ env = None /\ paths = None /\ hist = None

\* line 50: string = accep('b') ** (3, 7)
MakeString ==
    /\ pc = "L50"
    /\ \E lo \in 0..MaxRep, hi \in 0..MaxRep :
          lo <= hi /\ string' = Pow(Accep(<<"b">>, One), lo, hi)
    /\ pc' = "L51"
    /\ UNCHANGED objects
    /\ UNCHANGED <<sec, lattice3, lattice8, ostring3, ostring8, ostrings, lattice,
                   state_threshold, det_lattice, there_are_ties, top, rewrites, matches>>

\* lines 51-52: the lattices of both rules
ComposeBoth ==
    /\ pc = "L51"
    /\ lattice3' = ComposeRule(string, rule3)
    /\ lattice8' = ComposeRule(string, rule8)
    /\ pc' = "L55"
    /\ UNCHANGED objects
    /\ UNCHANGED <<sec, string, ostring3, ostring8, ostrings, lattice,
                   state_threshold, det_lattice, there_are_ties, top, rewrites, matches>>

\* lines 55-56: both lattices are not empty
AssertNonEmpty ==
    /\ pc = "L55"
    /\ pc' = IF lattice3.start # NO_STATE_ID /\ lattice8.start # NO_STATE_ID
             THEN "L59" ELSE "AssertionError"
    /\ UNCHANGED objects
    /\ UNCHANGED <<sec, string, lattice3, lattice8, ostring3, ostring8, ostrings, lattice,
                   state_threshold, det_lattice, there_are_ties, top, rewrites, matches>>

\* lines 59-60: acceptors over the output strings
ProjectBoth ==
    /\ pc = "L59"
    /\ lattice3' = RmEpsilon(ProjectOutput(lattice3))
    /\ lattice8' = RmEpsilon(ProjectOutput(lattice8))
    /\ pc' = "L63"
    /\ UNCHANGED objects
    /\ UNCHANGED <<sec, string, ostring3, ostring8, ostrings, lattice,
                   state_threshold, det_lattice, there_are_ties, top, rewrites, matches>>

\* lines 63-66: the shortest output string of each lattice
ShortestStrings ==
    /\ pc = "L63"
    /\ \E p3 \in ShortestOutcomes(lattice3, 1, FALSE),
          p8 \in ShortestOutcomes(lattice8, 1, FALSE) :
          ostring3' = p3[1].o /\ ostring8' = p8[1].o
    /\ pc' = "L69"
    /\ UNCHANGED objects
    /\ UNCHANGED <<sec, string, lattice3, lattice8, ostrings, lattice,
                   state_threshold, det_lattice, there_are_ties, top, rewrites, matches>>

\* lines 69-71: the 2 shortest unique output strings
TwoShortest ==
    /\ pc = "L69"
    /\ \E ps \in ShortestOutcomes(lattice3, 2, TRUE) :
          lattice' = FromPaths(ps) /\ ostrings' = OStrings(PathSeq(FromPaths(ps)))
    /\ pc' = "done"
    /\ UNCHANGED objects
    /\ UNCHANGED <<sec, string, lattice3, lattice8, ostring3, ostring8,
                   state_threshold, det_lattice, there_are_ties, top, rewrites, matches>>

\* line 77: string = accep('b') ** (5, 20) | accep('a') ** (5, 20), each
\* letter free as in the script or of weight 1
MakeString2 ==
    /\ pc = "L77"
    /\ \E lo \in 0..MaxRep, hi \in 0..MaxRep, wb \in {One, 1}, wa \in {One, 1} :
          /\ lo <= hi
          /\ string' = UnionFst(Pow(Accep(<<"b">>, wb), lo, hi),
                               Pow(Accep(<<"a">>, wa), lo, hi))
    /\ pc' = "L78"
    /\ UNCHANGED objects
    /\ UNCHANGED <<sec, lattice3, lattice8, ostring3, ostring8, ostrings, lattice,
                   state_threshold, det_lattice, there_are_ties, top, rewrites, matches>>

\* line 78: lattice = string @ rule3
ComposeLattice ==
    /\ pc = "L78"
    /\ lattice' = ComposeRule(string, rule3)
    /\ pc' = "L79"
    /\ UNCHANGED objects
    /\ UNCHANGED <<sec, string, lattice3, lattice8, ostring3, ostring8, ostrings,
                   state_threshold, det_lattice, there_are_ties, top, rewrites, matches>>

\* line 79: state_threshold = 4 * lattice.num_states() + 8, or a ceiling
\* small enough to be hit
SetThreshold ==
    /\ pc = "L79"
    /\ state_threshold' \in {4 * lattice.ns + 8} \cup (1..MaxNState)
    /\ pc' = "L80"
    /\ UNCHANGED objects
    /\ UNCHANGED <<sec, string, lattice3, lattice8, ostring3, ostring8, ostrings, lattice,
                   det_lattice, there_are_ties, top, rewrites, matches>>

\* line 80 with a ceiling one state too high
DeterminizeNState_one_more ==
    /\ pc = "L80"
    /\ det_lattice' = Determinize(lattice, Zero, state_threshold + 1)
    /\ pc' = "L81"
    /\ UNCHANGED objects
    /\ UNCHANGED <<sec, string, lattice3, lattice8, ostring3, ostring8, ostrings, lattice,
                   state_threshold, there_are_ties, top, rewrites, matches>>

\* line 80: det_lattice = determinize(lattice, nstate=state_threshold)
DeterminizeNState ==
    /\ pc = "L80"
    /\ det_lattice' = Determinize(lattice, Zero, state_threshold)
    /\ pc' = "L81"
    /\ UNCHANGED objects
    /\ UNCHANGED <<sec, string, lattice3, lattice8, ostring3, ostring8, ostrings, lattice,
                   state_threshold, there_are_ties, top, rewrites, matches>>

\* lines 81-82: ostrings = list(det_lattice.paths().ostrings())
ListOStrings ==
    /\ pc = "L81"
    /\ ostrings' = OStrings(PathSeq(det_lattice))
    /\ pc' = "L91"
    /\ UNCHANGED objects
    /\ UNCHANGED <<sec, string, lattice3, lattice8, ostring3, ostring8, lattice,
                   state_threshold, det_lattice, there_are_ties, top, rewrites, matches>>

\* lines 91-92 passing the 0-weight of the semiring
DeterminizeWeight_zero ==
    /\ pc = "L91"
    /\ det_lattice' = Determinize(lattice, Zero, NO_STATE_ID)
    /\ pc' = "L93"
    /\ UNCHANGED objects
    /\ UNCHANGED <<sec, string, lattice3, lattice8, ostring3, ostring8, ostrings, lattice,
                   state_threshold, there_are_ties, top, rewrites, matches>>

\* lines 91-92: det_lattice = determinize(lattice, weight=one)
DeterminizeWeight ==
    /\ pc = "L91"
    /\ det_lattice' = Determinize(lattice, One, NO_STATE_ID)
    /\ pc' = "L93"
    /\ UNCHANGED objects
    /\ UNCHANGED <<sec, string, lattice3, lattice8, ostring3, ostring8, ostrings, lattice,
                   state_threshold, there_are_ties, top, rewrites, matches>>

\* lines 93-95: there_are_ties = len(ostrings) > 1
CountTies ==
    /\ pc = "L93"
    /\ ostrings' = OStrings(PathSeq(det_lattice))
    /\ there_are_ties' = (Len(OStrings(PathSeq(det_lattice))) > 1)
    /\ pc' = "done"
    /\ UNCHANGED objects
    /\ UNCHANGED <<sec, string, lattice3, lattice8, ostring3, ostring8, lattice,
                   state_threshold, det_lattice, top, rewrites, matches>>

\* the strings line 126 joins: the script's, and one with the same output
\* as 'bbb'
TieStrings == {bbb, bbbb, bab}

\* line 126: string = accep('bbb', 3) | accep('bbbb', 4)
MakeString3 ==
    /\ pc = "L126"
    /\ \E s1 \in TieStrings, s2 \in TieStrings, w1 \in 0..MaxW, w2 \in 0..MaxW :
          string' = UnionFst(Accep(s1, w1), Accep(s2, w2))
    /\ pc' = "L127"
    /\ UNCHANGED objects
    /\ UNCHANGED <<sec, lattice3, lattice8, ostring3, ostring8, ostrings, lattice,
                   state_threshold, det_lattice, there_are_ties, top, rewrites, matches>>

\* lines 127-128 calling rewrite.top_rewrite
OneTop_top_rewrite ==
    /\ pc = "L127"
    /\ \E t \in TopRewrites1(string, rule) :
          top' = t /\ pc' = IF t.err = "" THEN "done" ELSE "Error"
    /\ UNCHANGED objects
    /\ UNCHANGED <<sec, string, lattice3, lattice8, ostring3, ostring8, ostrings, lattice,
                   state_threshold, det_lattice, there_are_ties, rewrites, matches>>

\* lines 127-128: top = rewrite.one_top_rewrite(string, rule)
OneTop ==
    /\ pc = "L127"
    /\ top' = OneTopRewrite(string, rule)
    /\ pc' = IF OneTopRewrite(string, rule).err = "" THEN "done" ELSE "Error"
    /\ UNCHANGED objects
    /\ UNCHANGED <<sec, string, lattice3, lattice8, ostring3, ostring8, ostrings, lattice,
                   state_threshold, det_lattice, there_are_ties, rewrites, matches>>

\* line 132: string = accep('bbb', 3) | accep('bbbb', 3) | accep('aa', 4)
MakeString4 ==
    /\ pc = "L132"
    /\ \E w1 \in 0..MaxW, w2 \in 0..MaxW, w3 \in 0..MaxW :
          string' = UnionFst(UnionFst(Accep(bbb, w1), Accep(bbbb, w2)), Accep(aa, w3))
    /\ pc' = "L133"
    /\ UNCHANGED objects
    /\ UNCHANGED <<sec, lattice3, lattice8, ostring3, ostring8, ostrings, lattice,
                   state_threshold, det_lattice, there_are_ties, top, rewrites, matches>>

\* lines 133-134: rewrites = rewrite.optimal_rewrites(string, rule)
Optimal ==
    /\ pc = "L133"
    /\ rewrites' = OptimalRewrites(string, rule)
    /\ pc' = "done"
    /\ UNCHANGED objects
    /\ UNCHANGED <<sec, string, lattice3, lattice8, ostring3, ostring8, ostrings, lattice,
                   state_threshold, det_lattice, there_are_ties, top, matches>>

\* lines 140-141: matches = rewrite.matches('bbb', 'bab', rule)
MatchesStep ==
    /\ pc = "L140"
    /\ \E n \in 0..MaxRep, y \in {bab, aba, bbb} :
          /\ string' = <<Rep("b", n), y>>
          /\ matches' = Matches(Rep("b", n), y, rule)
    /\ pc' = "done"
    /\ UNCHANGED objects
    /\ UNCHANGED <<sec, lattice3, lattice8, ostring3, ostring8, ostrings, lattice,
                   state_threshold, det_lattice, there_are_ties, top, rewrites>>

NextB ==
    \/ MakeString \/ ComposeBoth \/ AssertNonEmpty \/ ProjectBoth
    \/ ShortestStrings \/ TwoShortest
    \/ MakeString2 \/ ComposeLattice \/ SetThreshold \/ DeterminizeNState
    \/ ListOStrings \/ DeterminizeWeight \/ CountTies
    \/ MakeString3 \/ OneTop
    \/ MakeString4 \/ Optimal
    \/ MatchesStep

SpecBasics == InitB /\ [][NextB]_vars

(***************************************************************************)
(* Properties of run_basics.                                               *)
(***************************************************************************)
\* the input of lines 50-71 is exactly the string of n b's
JustB(n) == sec = 1 /\ pc # "L50" /\ IStrings(PathSeq(string)) = <<Rep("b", n)>>

AfterShortest == pc \in {"L69", "done"}

\* C1 (as amended): rule (3), b -> a / b __ b compiled for simultaneous
\* application over {a,b,c}*, composed with the input "bbb", yields a lattice
\* whose only output string is "bab": the shortest rewrite and the list of
\* the 2 shortest unique rewrites are "bab" on every run, and
\* matches('bbb', y, rule) holds for y = "bab" and not for "aba".
C1_BbbRewritesToBab ==
    /\ (JustB(3) /\ pc # "L51") =>
          /\ OStrings(PathSeq(lattice3)) = <<bab>>
          /\ AfterShortest => ostring3 = bab
          /\ pc = "done" => ostrings = <<bab>>
    /\ (sec = 5 /\ pc = "done" /\ string[1] = bbb) =>
          matches = Ok(string[2] = bab)

C1_Witness == JustB(3) /\ pc = "done" /\ ostring3 = bab /\ ostrings = <<bab>>

\* C1 (as claimed): "aba" is among the shortest rewrites of "bbb" under
\* rule (3).
C1_AbaAmongShortest == (JustB(3) /\ pc = "done") => SeqHas(ostrings, aba)

\* C2 (as amended): for the input "bbb" rule (8), b -> a / ^b __ b applied
\* left to right, and rule (3), b -> a / b __ b applied simultaneously, yield
\* the same output "bab"; their outputs differ exactly for the inputs of four
\* or more b's, where rule (3) rewrites every inner b and rule (8) only the
\* second b.
C2_ModesDifferFromFourOn ==
    \A n \in 0..MaxRep :
        (JustB(n) /\ AfterShortest) =>
            /\ ostring3 = (IF n < 3 THEN Rep("b", n)
                           ELSE <<"b">> \o Rep("a", n - 2) \o <<"b">>)
            /\ ostring8 = (IF n < 3 THEN Rep("b", n)
                           ELSE <<"b", "a">> \o Rep("b", n - 2))
            /\ (ostring3 # ostring8) <=> (n >= 4)

C2_Witness ==
    /\ JustB(4) /\ pc = "done"
    /\ ostring3 = <<"b", "a", "a", "b">> /\ ostring8 = <<"b", "a", "b", "b">>

\* C2 (as claimed): for the input "bbb" the output of rule (8) differs from
\* the output of rule (3).
C2_BbbOutputsDiffer == (JustB(3) /\ AfterShortest) => ostring3 # ostring8

\* the paths of least weight among the paths ps
Lightest(ps) == {p \in Range(ps) : \A q \in Range(ps) : p.w <= q.w}

\* the output strings the rule gives the input paths of least weight
OptimalOutputs(A, r) == {Rewrite(r, p.i) : p \in Lightest(PathSeq(A))}

Bbb3OrBbbb(w) == UnionFst(Accep(bbb, 3), Accep(bbbb, w))

\* C3: one_top_rewrite(string, rule) fails with AmbiguousTie whenever more
\* than one output string of the lattice has the least path weight, as for
\* "bbb" at weight 3 joined with "bbbb" at weight 3, and returns the string
\* when exactly one output string has the least weight, as for "bbb" at 3
\* joined with "bbbb" at 4.
C3_OneTopRewriteFailsOnTies ==
    (sec = 3 /\ pc \in {"done", "Error"}) =>
        LET best == OptimalOutputs(string, rule)
        IN /\ Cardinality(best) > 1 => (top = Raise("AmbiguousTie") /\ pc = "Error")
           /\ Cardinality(best) = 1 => (top.err = "" /\ top.val \in best /\ pc = "done")
           /\ string = Bbb3OrBbbb(3) => top.err = "AmbiguousTie"
           /\ string = Bbb3OrBbbb(4) => top = Ok(bab)

C3_Witness ==
    /\ sec = 3 /\ pc = "Error" /\ string = Bbb3OrBbbb(3)
    /\ top.err = "AmbiguousTie"

Triple(p) == <<p.i, p.o, p.w>>

\* C4: determinize(lattice, weight=one) on an acyclic lattice returns exactly
\* the paths whose weight is the least path weight of the lattice, each
\* string once: one path when the optimum is unique, every tied path when it
\* is not, and no path of greater weight; optimal_rewrites returns the output
\* strings of exactly these paths.
C4_WeightOneKeepsOptimalPaths ==
    /\ (sec = 2 /\ pc \in {"L93", "done"}) =>
          LET best == {Triple(p) : p \in Lightest(PathSeq(lattice))}
              kept == PathSeq(det_lattice)
          IN /\ {Triple(p) : p \in Range(kept)} = best
             /\ Len(kept) = Cardinality(best)
             /\ pc = "done" => there_are_ties = (Cardinality(best) > 1)
    /\ (sec = 4 /\ pc = "done") =>
          /\ rewrites.err = ""
          /\ Range(rewrites.val) = OptimalOutputs(string, rule)
          /\ Len(rewrites.val) = Cardinality(OptimalOutputs(string, rule))

C4_Witness ==
    /\ sec = 2 /\ pc = "done" /\ there_are_ties = TRUE
    /\ Len(PathSeq(det_lattice)) = 2
    /\ Len(PathSeq(lattice)) > 2

\* the ceiling stopped the construction short of the whole automaton
CeilingHit == DeterminizeFull(lattice).ns > state_threshold

AfterNState == sec = 2 /\ pc \in {"L81", "L91"}

Names3 == {"f", "d", "f_start", "f_star", "f_plus", "f_ques", "f4", "f5to7", "f3plus",
           "a", "bc", "a_bc_d", "ad", "bf_star", "ae", "t1", "di", "ek", "fj",
           "fl_star", "t2", "t3", "f1", "f2", "f3", "t", "ip", "op", "a_rev"}

\* the automaton the local x is bound to
Obj(x) == heap[env[x]]

\* the object a constructive call returns, k objects after the last one
Fresh(k) == Len(heap) + k

\* how often line 80 is run on the same transducer
MaxInverts == 2

Godspeed == <<"G", "o", "d", "s", "p", "e", "e", "d">>

You == <<"Y", "o", "u", "!">>

\* the strings of the acceptors of lines 63-64
Words == <<Godspeed, You, <<"G", "o", "d">>, <<"Y", "o">>>>

RECURSIVE Lang(_, _)
\* the union of the acceptors of the strings Words[k..] that are in S
Lang(S, k) ==
    IF k > Len(Words) THEN EmptyFst
    ELSE IF Words[k] \in S THEN UnionFst(Accep(Words[k], One), Lang(S, k + 1))
    ELSE Lang(S, k + 1)

\* the transducers of line 74
Transducers ==
    {UnionFst(CrossFst(x1, y1), CrossFst(x2, y2)) :
        x1 \in {<<"a", "c">>, <<"a">>}, y1 \in {<<"b">>, <<"a">>, <<"c", "a">>},
        x2 \in {<<"d", "f">>, <<"a">>}, y2 \in {<<"e">>, <<"d", "f">>}}

Start3 == [k \in 1..7 |-> <<"L11", "L38", "L46", "L63", "L74", "L83", "L80">>[k]]

Init3 ==
    /\ sec \in 1..7
    /\ pc = Start3[sec]
    /\ env = [x \in Names3 |-> IF sec = 7 /\ x = "t" THEN 1 ELSE 0]
    /\ heap \in IF sec = 7 THEN {<<T>> : T \in Transducers} ELSE {<<>>}
    /\ hist = [A |-> {}, B |-> {}, t0 |-> IF sec = 7 THEN heap[1] ELSE None, inverts |-> 0]
    /\ paths = None
    /\ string = None /\ lattice3 = None /\ lattice8 = None
    /\ ostring3 = None /\ ostring8 = None /\ ostrings = None
    /\ lattice = None /\ state_threshold = None /\ det_lattice = None
    /\ there_are_ties = None /\ top = None /\ rewrites = None /\ matches = None

\* lines 10-11: f = pynini.accep(s, weight=2)
AccepF ==
    /\ pc = "L11"
    /\ \E s \in {<<"G", "o">>, <<"a">>, <<"a", "b">>}, w \in {One, 2} :
          heap' = Append(heap, Accep(s, w))
    /\ env' = [env EXCEPT !.f = Fresh(1)]
    /\ pc' = "L15"
    /\ UNCHANGED <<sec, locals5, paths, hist>>

\* line 15: d = pynini.determinize(f)
DeterminizeF ==
    /\ pc = "L15"
    /\ heap' = Append(heap, DeterminizeFull(Obj("f")))
    /\ env' = [env EXCEPT !.d = Fresh(1)]
    /\ pc' = "L16"
    /\ UNCHANGED <<sec, locals5, paths, hist>>

\* line 16: d.optimize()
OptimizeD ==
    /\ pc = "L16"
    /\ heap' = [heap EXCEPT ![env.d] = Optimize(@)]
    /\ pc' = "L20"
    /\ UNCHANGED <<sec, locals5, env, paths, hist>>

\* line 20: d.concat(d)
ConcatD ==
    /\ pc = "L20"
    /\ heap' = [heap EXCEPT ![env.d] = ConcatFst(@, Obj("d"))]
    /\ pc' = "L21"
    /\ UNCHANGED <<sec, locals5, env, paths, hist>>

\* line 21: d += d, that is d = d + d
PlusAssignD ==
    /\ pc = "L21"
    /\ heap' = Append(heap, ConcatFst(Obj("d"), Obj("d")))
    /\ env' = [env EXCEPT !.d = Fresh(1)]
    /\ pc' = "L25"
    /\ UNCHANGED <<sec, locals5, paths, hist>>

\* line 25: d.closure()
ClosureD ==
    /\ pc = "L25"
    /\ heap' = [heap EXCEPT ![env.d] = ClosureFst(@, TRUE)]
    /\ pc' = "L26"
    /\ UNCHANGED <<sec, locals5, env, paths, hist>>

\* line 26 as a closure in place that hands back its operand
ClosureF_in_place ==
    /\ pc = "L26"
    /\ heap' = [heap EXCEPT ![env.f] = ClosureFst(@, TRUE)]
    /\ env' = [env EXCEPT !.f_start = env.f]
    /\ pc' = "L27"
    /\ UNCHANGED <<sec, locals5, paths, hist>>

\* line 26: f_start = pynini.closure(f)
ClosureF ==
    /\ pc = "L26"
    /\ heap' = Append(heap, ClosureFst(Obj("f"), TRUE))
    /\ env' = [env EXCEPT !.f_start = Fresh(1)]
    /\ pc' = "L27"
    /\ UNCHANGED <<sec, locals5, paths, hist>>

\* lines 27-29: f_star = f.star, f_plus = f.plus, f_ques = f.ques
StarPlusQues ==
    /\ pc = "L27"
    /\ heap' = heap \o <<ClosureFst(Obj("f"), TRUE), ClosureFst(Obj("f"), FALSE),
                         Ques(Obj("f"))>>
    /\ env' = [env EXCEPT !.f_star = Fresh(1), !.f_plus = Fresh(2), !.f_ques = Fresh(3)]
    /\ pc' = "L32"
    /\ UNCHANGED <<sec, locals5, paths, hist>>

\* lines 32-35: f4 = f ** 4, f5to7 = f ** (5, 7), f3plus = f ** (3, ...)
RangeConcat ==
    /\ pc = "L32"
    /\ heap' = heap \o <<Pow(Obj("f"), 4, 4), Pow(Obj("f"), 5, 7),
                         Pow(Obj("f"), 3, Ellipsis)>>
    /\ env' = [env EXCEPT !.f4 = Fresh(1), !.f5to7 = Fresh(2), !.f3plus = Fresh(3)]
    /\ pc' = "done"
    /\ UNCHANGED <<sec, locals5, paths, hist>>

\* lines 38-40: a = accep("a"), bc = accep("bc"), d = accep("d")
AccepABcD ==
    /\ pc = "L38"
    /\ \E x \in {<<"a">>, <<"a", "b">>}, y \in {<<"b", "c">>, <<"a">>},
          z \in {<<"d">>, <<"b", "c">>} :
          heap' = heap \o <<Accep(x, One), Accep(y, One), Accep(z, One)>>
    /\ env' = [env EXCEPT !.a = Fresh(1), !.bc = Fresh(2), !.d = Fresh(3)]
    /\ pc' = "L41"
    /\ UNCHANGED <<sec, locals5, paths, hist>>

\* line 41: a_bc_d = pynini.union(a, bc, d)
UnionCall ==
    /\ pc = "L41"
    /\ heap' = Append(heap, UnionFst(UnionFst(Obj("a"), Obj("bc")), Obj("d")))
    /\ env' = [env EXCEPT !.a_bc_d = Fresh(1)]
    /\ pc' = "L42"
    /\ UNCHANGED <<sec, locals5, paths, hist>>

\* line 42: a_bc_d = a | bc | d, by way of the object a | bc
UnionOperator ==
    /\ pc = "L42"
    /\ heap' = heap \o <<UnionFst(Obj("a"), Obj("bc")),
                         UnionFst(UnionFst(Obj("a"), Obj("bc")), Obj("d"))>>
    /\ env' = [env EXCEPT !.a_bc_d = Fresh(2)]
    /\ pc' = "L43"
    /\ UNCHANGED <<sec, locals5, paths, hist>>

\* line 43: a.union(bc).union(d)
UnionMethod ==
    /\ pc = "L43"
    /\ heap' = [heap EXCEPT ![env.a] = UnionFst(UnionFst(@, Obj("bc")), Obj("d"))]
    /\ pc' = "done"
    /\ UNCHANGED <<sec, locals5, env, paths, hist>>

\* lines 46-50: ad, bf_star, ae; t1 = (ad + bf_star) | ae; t1.rmepsilon()
BuildT1 ==
    /\ pc = "L46"
    /\ LET ad      == CrossFst(<<"a">>, <<"d">>)
           bf_star == ClosureFst(CrossFst(<<"b">>, <<"f">>), TRUE)
           ae      == CrossFst(<<"a">>, <<"e">>)
           sum     == ConcatFst(ad, bf_star)
       IN heap' = heap \o <<ad, bf_star, ae, sum, RmEpsilon(UnionFst(sum, ae))>>
    /\ env' = [env EXCEPT !.ad = Fresh(1), !.bf_star = Fresh(2), !.ae = Fresh(3),
                          !.t1 = Fresh(5)]
    /\ pc' = "L51"
    /\ UNCHANGED <<sec, locals5, paths, hist>>

\* lines 51-56: di, ek, fj, fl_star; t2 = (di + fj).union(ek) + fl_star;
\* t2.rmepsilon()
BuildT2 ==
    /\ pc = "L51"
    /\ LET di      == CrossFst(<<"d">>, <<"i">>)
           ek      == CrossFst(<<"e">>, <<"k">>)
           fj      == CrossFst(<<"f">>, <<"j">>)
           fl_star == ClosureFst(CrossFst(<<"f">>, <<"l">>), TRUE)
           sum     == UnionFst(ConcatFst(di, fj), ek)
       IN heap' = heap \o <<di, ek, fj, fl_star, sum, RmEpsilon(ConcatFst(sum, fl_star))>>
    /\ env' = [env EXCEPT !.di = Fresh(1), !.ek = Fresh(2), !.fj = Fresh(3),
                          !.fl_star = Fresh(4), !.t2 = Fresh(6)]
    /\ pc' = "L57"
    /\ UNCHANGED <<sec, locals5, paths, hist>>

\* lines 57-58: t3 = pynini.compose(t1, t2); t3 = t1 @ t2
ComposeT1T2 ==
    /\ pc = "L57"
    /\ heap' = heap \o <<ComposeFst(Obj("t1"), Obj("t2")), ComposeFst(Obj("t1"), Obj("t2"))>>
    /\ env' = [env EXCEPT !.t3 = Fresh(2)]
    /\ pc' = "L59"
    /\ UNCHANGED <<sec, locals5, paths, hist>>

\* lines 59-60: t3.rmepsilon()
RmEpsilonT3 ==
    /\ pc = "L59"
    /\ heap' = [heap EXCEPT ![env.t3] = RmEpsilon(@)]
    /\ pc' = "done"
    /\ UNCHANGED <<sec, locals5, env, paths, hist>>

\* line 63: f1 = pynini.accep('Godspeed'), or an acceptor of more strings
AccepF1 ==
    /\ pc = "L63"
    /\ \E A \in SUBSET Range(Words) :
          /\ A # {}
          /\ heap' = Append(heap, Lang(A, 1))
          /\ hist' = [hist EXCEPT !.A = A]
    /\ env' = [env EXCEPT !.f1 = Fresh(1)]
    /\ pc' = "L64"
    /\ UNCHANGED <<sec, locals5, paths>>

\* line 64: f2 = f1 | pynini.accep('You!')
UnionF2 ==
    /\ pc = "L64"
    /\ \E B \in SUBSET Range(Words) :
          /\ B # {}
          /\ heap' = heap \o <<Lang(B, 1), UnionFst(Obj("f1"), Lang(B, 1))>>
          /\ hist' = [hist EXCEPT !.B = B]
    /\ env' = [env EXCEPT !.f2 = Fresh(2)]
    /\ pc' = "L65"
    /\ UNCHANGED <<sec, locals5, paths>>

\* line 65 with the operands the other way round
DifferenceF3_swapped ==
    /\ pc = "L65"
    /\ heap' = Append(heap, DifferenceFst(Obj("f1"), Obj("f2")))
    /\ env' = [env EXCEPT !.f3 = Fresh(1)]
    /\ pc' = "L66"
    /\ UNCHANGED <<sec, locals5, paths, hist>>

\* line 65: f3 = f2 - f1
DifferenceF3 ==
    /\ pc = "L65"
    /\ heap' = Append(heap, DifferenceFst(Obj("f2"), Obj("f1")))
    /\ env' = [env EXCEPT !.f3 = Fresh(1)]
    /\ pc' = "L66"
    /\ UNCHANGED <<sec, locals5, paths, hist>>

\* line 66: print(f3.string()), an error unless f3 holds one string
PrintF3 ==
    /\ pc = "L66"
    /\ pc' = IF Len(PathSeq(Obj("f3"))) = 1 THEN "done" ELSE "FstOpError"
    /\ UNCHANGED <<sec, locals5, objects>>

\* lines 74-75: t = cross("ac", "b") | cross("df", "e"); t.rmepsilon()
CrossT ==
    /\ pc = "L74"
    /\ \E T \in Transducers : heap' = Append(heap, RmEpsilon(T))
    /\ env' = [env EXCEPT !.t = Fresh(1)]
    /\ pc' = "L76"
    /\ UNCHANGED <<sec, locals5, paths, hist>>

\* line 76: ip = t.project("input").rmepsilon(), t itself
ProjectIp ==
    /\ pc = "L76"
    /\ heap' = [heap EXCEPT ![env.t] = RmEpsilon(ProjectInput(@))]
    /\ env' = [env EXCEPT !.ip = env.t]
    /\ pc' = "L77"
    /\ UNCHANGED <<sec, locals5, paths, hist>>

\* line 77: op = t.project("output").rmepsilon(), t itself again
ProjectOp ==
    /\ pc = "L77"
    /\ heap' = [heap EXCEPT ![env.t] = RmEpsilon(ProjectOutput(@))]
    /\ env' = [env EXCEPT !.op = env.t]
    /\ hist' = [hist EXCEPT !.t0 = RmEpsilon(ProjectOutput(Obj("t")))]
    /\ pc' = "L80"
    /\ UNCHANGED <<sec, locals5, paths>>

\* line 80 as a projection to the output labels
InvertT_project ==
    /\ pc = "L80"
    /\ hist.inverts < MaxInverts
    /\ heap' = [heap EXCEPT ![env.t] = ProjectOutput(@)]
    /\ hist' = [hist EXCEPT !.inverts = @ + 1]
    /\ pc' = IF hist.inverts + 1 = MaxInverts THEN "done" ELSE "L80"
    /\ UNCHANGED <<sec, locals5, env, paths>>

\* line 80: t.invert(), run up to MaxInverts times
InvertT ==
    /\ pc = "L80"
    /\ hist.inverts < MaxInverts
    /\ heap' = [heap EXCEPT ![env.t] = InvertFst(@)]
    /\ hist' = [hist EXCEPT !.inverts = @ + 1]
    /\ pc' = IF hist.inverts + 1 = MaxInverts THEN "done" ELSE "L80"
    /\ UNCHANGED <<sec, locals5, env, paths>>

\* lines 83-84: a = accep("de") | accep("abc"); a.rmepsilon()
AccepA ==
    /\ pc = "L83"
    /\ \E x \in {<<"d", "e">>, <<"a">>}, y \in {<<"a", "b", "c">>, <<"d">>},
          w \in {One, 1} :
          heap' = heap \o <<Accep(x, w), Accep(y, One),
                            RmEpsilon(UnionFst(Accep(x, w), Accep(y, One)))>>
    /\ env' = [env EXCEPT !.a = Fresh(3)]
    /\ pc' = "L85"
    /\ UNCHANGED <<sec, locals5, paths, hist>>

\* line 85: a_rev = pynini.reverse(a)
ReverseA ==
    /\ pc = "L85"
    /\ heap' = Append(heap, ReverseFst(Obj("a")))
    /\ env' = [env EXCEPT !.a_rev = Fresh(1)]
    /\ pc' = "done"
    /\ UNCHANGED <<sec, locals5, paths, hist>>

Next3 ==
    \/ AccepF \/ DeterminizeF \/ OptimizeD \/ ConcatD \/ PlusAssignD \/ ClosureD
    \/ ClosureF \/ StarPlusQues \/ RangeConcat
    \/ AccepABcD \/ UnionCall \/ UnionOperator \/ UnionMethod
    \/ BuildT1 \/ BuildT2 \/ ComposeT1T2 \/ RmEpsilonT3
    \/ AccepF1 \/ UnionF2 \/ DifferenceF3 \/ PrintF3
    \/ CrossT \/ ProjectIp \/ ProjectOp \/ InvertT
    \/ AccepA \/ ReverseA

Spec3 == Init3 /\ [][Next3]_vars

\* ---------------------------------------------------------------------
\* chapter_3.py, lines 10-15, with the subset construction of
\* pynini.determinize taken one subset at a time
\* ---------------------------------------------------------------------

\* the subsets after which the construction is given up as diverging
MaxSubsets == 16

\* the arcs an acyclic input may carry from one state to a later one
ArcChoices == {<<>>, <<"a", One>>, <<"a", 1>>, <<"b", One>>}

\* the acyclic automaton of four states whose arcs from i to j > i are
\* c[<<i, j>>]; its last state is final
AcyclicFst(c) ==
    [ns    |-> 4,
     start |-> 0,
     fin   |-> <<Zero, Zero, Zero, One>>,
     arcs  |-> [q \in 1..4 |->
                  Flatten([j \in 1..4 |->
                             IF j > q /\ c[<<q, j>>] # <<>>
                             THEN <<Arc(c[<<q, j>>][1], c[<<q, j>>][1], c[<<q, j>>][2], j - 1)>>
                             ELSE <<>>])]]

InitDet ==
    /\ sec = 14
    /\ pc = "L11"
    /\ env = [x \in Names3 |-> 0]
    /\ heap = <<>>
    /\ hist = [subs |-> <<>>, k |-> 0, arcs |-> <<>>]
    /\ paths = None
    /\ string = None /\ lattice3 = None /\ lattice8 = None
    /\ ostring3 = None /\ ostring8 = None /\ ostrings = None
    /\ lattice = None /\ state_threshold = None /\ det_lattice = None
    /\ there_are_ties = None /\ top = None /\ rewrites = None /\ matches = None

\* lines 10-11 with a cyclic f: two a-arcs leave the start state to two
\* states that loop over b at different weights
CyclicF ==
    /\ pc = "L11"
    /\ heap' = Append(heap, [ns    |-> 3,
                             start |-> 0,
                             fin   |-> <<Zero, One, One>>,
                             arcs  |-> <<<<Arc("a", "a", One, 1), Arc("a", "a", One, 2)>>,
                                         <<Arc("b", "b", 1, 1)>>,
                                         <<Arc("b", "b", 2, 2)>>>>])
    /\ env' = [env EXCEPT !.f = Fresh(1)]
    /\ pc' = "L15"
    /\ UNCHANGED <<sec, locals5, paths, hist>>

\* lines 10-11: f, the acceptor of a string at weight 2 or any other
\* acyclic automaton
AcyclicF ==
    /\ pc = "L11"
    /\ \/ \E s \in {Godspeed, <<"a", "b">>} : heap' = Append(heap, Accep(s, 2))
       \/ \E c \in [{<<i, j>> \in (1..4) \X (1..4) : i < j} -> ArcChoices] :
             heap' = Append(heap, AcyclicFst(c))
    /\ env' = [env EXCEPT !.f = Fresh(1)]
    /\ pc' = "L15"
    /\ UNCHANGED <<sec, locals5, paths, hist>>

\* line 15, the call: the construction starts from the subset of the start
\* state of f
DetStart ==
    /\ sec = 14 /\ pc = "L15"
    /\ hist' = [subs |-> IF Obj("f").start = NO_STATE_ID THEN <<>>
                         ELSE <<{<<Obj("f").start, One>>}>>,
                k    |-> 1,
                arcs |-> <<>>]
    /\ pc' = "L15_subsets"
    /\ UNCHANGED <<sec, locals5, heap, env, paths>>

\* line 15, one subset: its arcs are built and the subsets they reach for
\* the first time are queued
DetSubset ==
    /\ pc = "L15_subsets"
    /\ hist.k <= Len(hist.subs)
    /\ Len(hist.subs) < MaxSubsets
    /\ \E step \in {DetStep(Obj("f"), hist.subs, hist.k)} :
          hist' = [subs |-> step.subs,
                   k    |-> hist.k + 1,
                   arcs |-> Append(hist.arcs, step.out)]
    /\ UNCHANGED <<sec, pc, locals5, heap, env, paths>>

\* line 15, the return: no subset is left, d is bound to the result
DetReturn ==
    /\ pc = "L15_subsets"
    /\ hist.k > Len(hist.subs)
    /\ heap' = Append(heap, IF hist.subs = <<>> THEN EmptyFst
                            ELSE DetResult(Obj("f"), hist.subs, hist.arcs))
    /\ env' = [env EXCEPT !.d = Fresh(1)]
    /\ pc' = "L16"
    /\ UNCHANGED <<sec, locals5, paths, hist>>

NextDet ==
    \/ AcyclicF
    \/ DetStart
    \/ DetSubset
    \/ DetReturn

\* the script runs on as long as it has a step to take
SpecDet ==
    InitDet /\ [][NextDet]_vars /\ WF_vars(DetStart) /\ WF_vars(DetSubset) /\ WF_vars(DetReturn)

\* C15: determinization without a state ceiling and without a weight
\* threshold terminates for every acyclic input: once determinize is
\* called on f it returns, and the subsets it builds never reach the number
\* at which the construction is given up
C15_UnboundedDeterminizationTerminates ==
    /\ (sec = 14 /\ pc = "L15") ~> (pc = "L16")
    /\ [](sec = 14 => Len(hist.subs) < MaxSubsets)

\* determinize has returned for an input that two arcs of the same label
\* and different weights leave from one state, and the result is that of
\* the construction run in one piece
C15_Witness ==
    /\ sec = 14 /\ pc = "L16"
    /\ ~IsCyclic(Obj("f"))
    /\ ~IsDeterministic(Obj("f"))
    /\ \E q \in States(Obj("f")) : \E a, b \in Range(Arcs(Obj("f"), q)) :
          a.il = b.il /\ a.w # b.w
    /\ Len(hist.subs) >= 4
    /\ \E S \in Range(hist.subs) : Cardinality(S) >= 2 /\ \E e \in S : e[2] # One
    /\ Obj("d") = DeterminizeFull(Obj("f"))
    /\ IsDeterministic(Obj("d"))

(***************************************************************************)
(* Properties of chapter_3.py.                                             *)
(***************************************************************************)
\* the strings on the input side of the paths of A
Language(A) == Range(IStrings(PathSeq(A)))

AfterDifference == sec = 4 /\ pc \in {"L66", "done", "FstOpError"}

\* C5: for unweighted acceptors A (f1) and B, the difference (A | B) - A
\* accepts exactly the strings of B that A does not accept; for
\* A = {"Godspeed"} and B = {"Godspeed", "You!"} it accepts exactly "You!".
C5_DifferenceIsBWithoutA ==
    AfterDifference =>
        /\ Language(Obj("f1")) = hist.A
        /\ Language(Obj("f2")) = hist.A \cup hist.B
        /\ Language(Obj("f3")) = hist.B \ hist.A
        /\ \A s \in Range(Words) :
              Accepts(Obj("f3"), s) <=> (s \in hist.B /\ s \notin hist.A)
        /\ (hist.A = {Godspeed} /\ hist.B = {Godspeed, You}) =>
              IStrings(PathSeq(Obj("f3"))) = <<You>>

C5_Witness ==
    /\ AfterDifference /\ pc = "done"
    /\ hist.A = {Godspeed} /\ hist.B = {Godspeed, You}
    /\ IStrings(PathSeq(Obj("f3"))) = <<You>>

\* the lines whose call returns a new automaton
Constructive3 == {"L11", "L15", "L21", "L26", "L27", "L32", "L38", "L41", "L42", "L46",
                  "L51", "L57", "L63", "L64", "L65", "L74", "L83", "L85"}

\* the receiver of the destructive call of a line
Receiver3(l) ==
    CASE l \in {"L16", "L20", "L25"} -> "d"
      [] l = "L43" -> "a"
      [] l = "L59" -> "t3"
      [] l \in {"L76", "L77", "L80"} -> "t"

\* the step leaves every object as it is, and what it binds is new
KeepsEveryObject ==
    /\ Len(heap') > Len(heap)
    /\ \A o \in 1..Len(heap) : heap'[o] = heap[o]
    /\ \A x \in Names3 : env'[x] # env[x] => env'[x] > Len(heap)

\* the step changes no object but the one bound to r, and makes none
ChangesOnly(r) ==
    /\ Len(heap') = Len(heap)
    /\ \A o \in 1..Len(heap) : o # env[r] => heap'[o] = heap[o]
    /\ \A x \in Names3 : env'[x] # env[x] => env'[x] = env[r]

AtInversion == sec = 7 \/ (sec = 5 /\ pc \in {"L80", "done"})

\* U is T with the input and output label of every arc swapped
Swapped(T, U) ==
    /\ U.ns = T.ns /\ U.start = T.start /\ U.fin = T.fin
    /\ \A q \in 1..T.ns :
          /\ Len(U.arcs[q]) = Len(T.arcs[q])
          /\ \A k \in 1..Len(T.arcs[q]) :
                U.arcs[q][k] = Arc(T.arcs[q][k].ol, T.arcs[q][k].il,
                                   T.arcs[q][k].w, T.arcs[q][k].nx)

IsAcceptor(T) ==
    \A q \in 1..T.ns : \A k \in 1..Len(T.arcs[q]) : T.arcs[q][k].il = T.arcs[q][k].ol

\* C10: inverting a transducer T twice gives back T, with the same states,
\* start, final weights and arcs; inverting it once gives T with the labels
\* of every arc swapped.
C10_InvertTwiceIsIdentity ==
    AtInversion =>
        /\ hist.inverts % 2 = 0 => Obj("t") = hist.t0
        /\ hist.inverts % 2 = 1 => Swapped(hist.t0, Obj("t"))
        /\ (hist.inverts % 2 = 1 /\ ~IsAcceptor(hist.t0)) => Obj("t") # hist.t0

C10_Witness ==
    /\ sec = 7 /\ hist.inverts = 2
    /\ ~IsAcceptor(hist.t0)
    /\ Obj("t") = hist.t0

(***************************************************************************)
(* chapter_4.py, lines 34-47: a weighted cyclic acceptor and its shortest  *)
(* paths (section 8).  The weights of the script are drawn from small      *)
(* sets that hold the script's values; draw() changes no state.            *)
(* Lines 11-32: a transducer and its optimization (section 10).            *)
(***************************************************************************)
Names4 == {"a", "b", "c", "d", "e", "f", "sp", "t"}

\* pynutil.add_weight(expr, weight): accep("", weight=weight) + expr
AddWeight(A, w) == ConcatFst(Accep(<<>>, w), A)

Init4 ==
    /\ sec \in {8, 10}
    /\ pc = IF sec = 8 THEN "L35" ELSE "L11"
    /\ heap = <<>>
    /\ env = [x \in Names4 |-> 0]
    /\ hist = [a |-> 0, b |-> 0, c |-> 0, d |-> 0, e |-> 0, n |-> 0]
    /\ paths = None
    /\ string = None /\ lattice3 = None /\ lattice8 = None
    /\ ostring3 = None /\ ostring8 = None /\ ostrings = None
    /\ lattice = None /\ state_threshold = None /\ det_lattice = None
    /\ there_are_ties = None /\ top = None /\ rewrites = None /\ matches = None

\* lines 11-23: t = t1 | t2 | t3 | t4 | t5, or the union of some of them
BuildT ==
    /\ pc = "L11"
    /\ \E S \in SUBSET (1..5) :
          /\ S # {}
          /\ LET X(x, y) == CrossFst(<<x>>, <<y>>)
                 tail    == UnionFst(X("c", "b"), X("d", "b"))
                 ts      == <<ConcatFst(X("a", "c"), tail), ConcatFst(X("c", "c"), tail),
                              ConcatFst(X("b", "c"), tail),
                              ConcatFst(X("d", "b"), X("d", "a")),
                              ConcatFst(X("b", "b"), X("d", "a"))>>
                 RECURSIVE UnionOf(_)
                 UnionOf(k) ==
                     IF k > 5 THEN EmptyFst
                     ELSE IF k \notin S THEN UnionOf(k + 1)
                     ELSE IF \A j \in (k + 1)..5 : j \notin S THEN ts[k]
                     ELSE UnionFst(ts[k], UnionOf(k + 1))
             IN heap' = Append(heap, UnionOf(1))
    /\ env' = [env EXCEPT !.t = Fresh(1)]
    /\ pc' = "L24"
    /\ UNCHANGED <<sec, locals5, paths, hist>>

\* line 24: t.rmepsilon()
RmEpsilonT ==
    /\ pc = "L24"
    /\ heap' = [heap EXCEPT ![env.t] = RmEpsilon(@)]
    /\ pc' = "L31"
    /\ UNCHANGED <<sec, locals5, env, paths, hist>>

\* line 31 with the merging of equivalent states left out
OptimizeT_no_minimize ==
    /\ pc = "L31"
    /\ heap' = [heap EXCEPT ![env.t] = DeterminizeFull(RmEpsilon(@))]
    /\ pc' = "done"
    /\ UNCHANGED <<sec, locals5, env, paths, hist>>

\* lines 31-32: t.optimize()
OptimizeT ==
    /\ pc = "L31"
    /\ heap' = [heap EXCEPT ![env.t] = Optimize(@)]
    /\ pc' = "done"
    /\ UNCHANGED <<sec, locals5, env, paths, hist>>

\* line 35: a = pynutil.add_weight(pynini.accep("a"), 2).star
AddWeightA ==
    /\ pc = "L35"
    /\ \E w \in {1, 2} :
          /\ heap' = Append(heap, ClosureFst(AddWeight(Accep(<<"a">>, One), w), TRUE))
          /\ hist' = [hist EXCEPT !.a = w]
    /\ env' = [env EXCEPT !.a = Fresh(1)]
    /\ pc' = "L36"
    /\ UNCHANGED <<sec, locals5, paths>>

\* line 36: b = pynutil.add_weight(pynini.accep("b"), 3)
AddWeightB ==
    /\ pc = "L36"
    /\ \E w \in {3, 4} :
          /\ heap' = Append(heap, AddWeight(Accep(<<"b">>, One), w))
          /\ hist' = [hist EXCEPT !.b = w]
    /\ env' = [env EXCEPT !.b = Fresh(1)]
    /\ pc' = "L37"
    /\ UNCHANGED <<sec, locals5, paths>>

\* line 37: c = pynutil.add_weight(pynini.accep("c", 3), 4)
AddWeightC ==
    /\ pc = "L37"
    /\ \E w \in {4, 5} :
          /\ heap' = Append(heap, AddWeight(Accep(<<"c">>, 3), w))
          /\ hist' = [hist EXCEPT !.c = w + 3]
    /\ env' = [env EXCEPT !.c = Fresh(1)]
    /\ pc' = "L38"
    /\ UNCHANGED <<sec, locals5, paths>>

\* line 38: d = pynutil.add_weight(pynini.accep("d"), 5)
AddWeightD ==
    /\ pc = "L38"
    /\ \E w \in {3, 5} :
          /\ heap' = Append(heap, AddWeight(Accep(<<"d">>, One), w))
          /\ hist' = [hist EXCEPT !.d = w]
    /\ env' = [env EXCEPT !.d = Fresh(1)]
    /\ pc' = "L39"
    /\ UNCHANGED <<sec, locals5, paths>>

\* line 39: e = pynutil.add_weight(pynini.accep("e", 3), 4)
AddWeightE ==
    /\ pc = "L39"
    /\ heap' = Append(heap, AddWeight(Accep(<<"e">>, 3), 4))
    /\ hist' = [hist EXCEPT !.e = 4 + 3]
    /\ env' = [env EXCEPT !.e = Fresh(1)]
    /\ pc' = "L40"
    /\ UNCHANGED <<sec, locals5, paths>>

\* line 40: f = a + ((b + c) | (d + e))
ConcatF ==
    /\ pc = "L40"
    /\ heap' = Append(heap, ConcatFst(Obj("a"),
                                     UnionFst(ConcatFst(Obj("b"), Obj("c")),
                                              ConcatFst(Obj("d"), Obj("e")))))
    /\ env' = [env EXCEPT !.f = Fresh(1)]
    /\ pc' = "L41"
    /\ UNCHANGED <<sec, locals5, paths, hist>>

\* line 41: f.optimize()
OptimizeF ==
    /\ pc = "L41"
    /\ heap' = [heap EXCEPT ![env.f] = Optimize(@)]
    /\ pc' = "L45"
    /\ UNCHANGED <<sec, locals5, env, paths, hist>>

\* line 45 as it would be if shortest paths were refused on cyclic input
ShortestPathF_acyclic_only ==
    /\ pc = "L45"
    /\ \E n \in 1..3 :
          /\ hist' = [hist EXCEPT !.n = n]
          /\ IF IsCyclic(Obj("f"))
             THEN pc' = "CyclicAutomaton" /\ UNCHANGED <<heap, env>>
             ELSE /\ \E ps \in ShortestOutcomes(Obj("f"), n, FALSE) :
                        heap' = Append(heap, FromPaths(ps))
                  /\ env' = [env EXCEPT !.sp = Fresh(1)]
                  /\ pc' = "L46"
    /\ UNCHANGED <<sec, locals5, paths>>

\* line 45: sp = pynini.shortestpath(f, nshortest=2)
ShortestPathF ==
    /\ pc = "L45"
    /\ \E n \in 1..3 :
          /\ hist' = [hist EXCEPT !.n = n]
          /\ \E ps \in ShortestOutcomes(Obj("f"), n, FALSE) :
                heap' = Append(heap, FromPaths(ps))
    /\ env' = [env EXCEPT !.sp = Fresh(1)]
    /\ pc' = "L46"
    /\ UNCHANGED <<sec, locals5, paths>>

\* line 46: sp.rmepsilon()
RmEpsilonSp ==
    /\ pc = "L46"
    /\ heap' = [heap EXCEPT ![env.sp] = RmEpsilon(@)]
    /\ pc' = "done"
    /\ UNCHANGED <<sec, locals5, env, paths, hist>>

Next4 ==
    \/ BuildT \/ RmEpsilonT \/ OptimizeT
    \/ AddWeightA \/ AddWeightB \/ AddWeightC \/ AddWeightD \/ AddWeightE
    \/ ConcatF \/ OptimizeF \/ ShortestPathF \/ RmEpsilonSp

Spec4 == Init4 /\ [][Next4]_vars

(***************************************************************************)
(* Properties of chapter_4.py.                                             *)
(***************************************************************************)
\* line 45 has been run
AfterShortestPath == sec = 8 /\ pc \in {"L46", "done", "CyclicAutomaton"}

\* the strings a^k bc and a^k de, k <= 4, each with the weight the weights
\* of lines 35-39 give it
Strings4 ==
    {[i |-> Rep("a", k) \o <<"b", "c">>, w |-> k * hist.a + hist.b + hist.c] : k \in 0..4}
    \cup {[i |-> Rep("a", k) \o <<"d", "e">>, w |-> k * hist.a + hist.d + hist.e] : k \in 0..4}

\* the paths of sp, as string and weight
Found4 == {[i |-> p.i, w |-> p.w] : p \in Range(PathSeq(Obj("sp")))}

Pairs2 == << <<"AL", "Alabama">>, <<"AK", "Alaska">>,
             <<"AR", "Arkansas">>, <<"AZ", "Arizona">> >>

\* the characters of a string literal of the script
Letters(s) ==
    CASE s = "AL" -> <<"A", "L">>
      [] s = "AK" -> <<"A", "K">>
      [] s = "AR" -> <<"A", "R">>
      [] s = "AZ" -> <<"A", "Z">>
      [] s = "Alabama"  -> <<"A", "l", "a", "b", "a", "m", "a">>
      [] s = "Alaska"   -> <<"A", "l", "a", "s", "k", "a">>
      [] s = "Arkansas" -> <<"A", "r", "k", "a", "n", "s", "a", "s">>
      [] s = "Arizona"  -> <<"A", "r", "i", "z", "o", "n", "a">>
      [] s = "Godpspeed" -> <<"G", "o", "d", "p", "s", "p", "e", "e", "d">>
      [] s = "You!" -> <<"Y", "o", "u", "!">>
      [] s = "" -> <<>>

RECURSIVE StringMap(_, _)
\* pynini.string_map(m): the union of the crosses of the pairs m[k..]
StringMap(m, k) ==
    IF k > Len(m) THEN EmptyFst
    ELSE IF k = Len(m) THEN CrossFst(Letters(m[k][1]), Letters(m[k][2]))
    ELSE UnionFst(CrossFst(Letters(m[k][1]), Letters(m[k][2])), StringMap(m, k + 1))

\* the state the arcs numbered pos lead to from the start state
PathsState(A, pos) ==
    LET RECURSIVE Walk(_, _)
        Walk(q, k) == IF k > Len(pos) THEN q ELSE Walk(Arcs(A, q)[pos[k]].nx, k + 1)
    IN Walk(A.start, 1)

\* the iterator moved one place on, depth first and arcs in their order
PathsStep(it) ==
    LET A == it.fst
        RECURSIVE Backtrack(_)
        \* the next arc of the nearest state that has one left
        Backtrack(pos) ==
            IF pos = <<>> THEN [it EXCEPT !.done = TRUE]
            ELSE LET up == SubSeq(pos, 1, Len(pos) - 1)
                 IN IF pos[Len(pos)] < Len(Arcs(A, PathsState(A, up)))
                    THEN [it EXCEPT !.pos = Append(up, pos[Len(pos)] + 1)]
                    ELSE Backtrack(up)
    IN IF Len(Arcs(A, PathsState(A, it.pos))) > 0
       THEN [it EXCEPT !.pos = Append(it.pos, 1)]
       ELSE Backtrack(it.pos)

RECURSIVE PathsAdvance(_)
\* the iterator moved on until it is where a path ends, or none is left
PathsAdvance(it) ==
    IF it.done \/ Final(it.fst, PathsState(it.fst, it.pos)) # Zero THEN it
    ELSE PathsAdvance(PathsStep(it))

\* paths.reset(): back to the first path of the snapshot
PathsReset(it) ==
    IF it.fst.start = NO_STATE_ID THEN [it EXCEPT !.pos = <<>>, !.done = TRUE]
    ELSE PathsAdvance([it EXCEPT !.pos = <<>>, !.done = FALSE])

\* fst.paths(): an iterator over a snapshot of fst, at its first path
PathsOf(A) == PathsReset([fst |-> A, pos |-> <<>>, done |-> FALSE])

\* paths.next()
PathsNext(it) == IF it.done THEN it ELSE PathsAdvance(PathsStep(it))

\* paths.done()
PathsDone(it) == it.done

\* paths.ilabels(), olabels(), weight() of the current path
PathsCurrent(it) ==
    LET A == it.fst
        RECURSIVE Collect(_, _, _, _, _)
        Collect(q, k, i, o, w) ==
            IF k > Len(it.pos) THEN PathRec(i, o, Times(w, Final(A, q)))
            ELSE LET a == Arcs(A, q)[it.pos[k]]
                 IN Collect(a.nx, k + 1, AddLabel(i, a.il), AddLabel(o, a.ol),
                            Times(w, a.w))
    IN Collect(A.start, 1, <<>>, <<>>, One)

\* the lists m of line 43: the pairs of Pairs2 numbered in S, in their order
Maps2 ==
    {SelectSeq([k \in 1..Len(Pairs2) |-> k], LAMBDA k : k \in S) :
        S \in SUBSET (1..Len(Pairs2))}

\* the pairs of the list m of numbers
PairsOf(m) == [k \in 1..Len(m) |-> Pairs2[m[k]]]

InitPaths ==
    /\ sec = 9
    /\ pc = "L10"
    /\ heap = <<>>
    /\ env = [x \in {"f"} |-> 0]
    /\ paths = None
    /\ hist = [m |-> <<>>, pass |-> 0, visits |-> <<<<>>, <<>>, <<>>>>, nexts |-> <<0, 0, 0>>]
    /\ string = None /\ lattice3 = None /\ lattice8 = None
    /\ ostring3 = None /\ ostring8 = None /\ ostrings = None
    /\ lattice = None /\ state_threshold = None /\ det_lattice = None
    /\ there_are_ties = None /\ top = None /\ rewrites = None /\ matches = None

\* lines 10-11 with an Fst() that has one state, its start
FstF_one_state ==
    /\ pc = "L10"
    /\ heap' = Append(heap, Accep(<<>>, Zero))
    /\ env' = [env EXCEPT !.f = Fresh(1)]
    /\ pc' = IF Accep(<<>>, Zero).start = NO_STATE_ID THEN "L14" ELSE "AssertionError"
    /\ UNCHANGED <<sec, locals5, paths, hist>>

\* lines 10-11: f = pynini.Fst(); assert f.start() == pynini.NO_STATE_ID
FstF ==
    /\ pc = "L10"
    /\ heap' = Append(heap, EmptyFst)
    /\ env' = [env EXCEPT !.f = Fresh(1)]
    /\ pc' = IF EmptyFst.start = NO_STATE_ID THEN "L14" ELSE "AssertionError"
    /\ UNCHANGED <<sec, locals5, paths, hist>>

\* lines 14-22: s = "Godpspeed"; f = pynini.accep(s, weight=2);
\* assert f.start() != pynini.NO_STATE_ID
AccepS ==
    /\ pc = "L14"
    /\ \E s \in {"Godpspeed", "You!", ""} :
          /\ heap' = Append(heap, Accep(Letters(s), 2))
          /\ pc' = IF Accep(Letters(s), 2).start # NO_STATE_ID
                   THEN "L49" ELSE "AssertionError"
    /\ env' = [env EXCEPT !.f = Fresh(1)]
    /\ UNCHANGED <<sec, locals5, paths, hist>>

\* lines 43-49 with each pair taken as (output, input)
StringMapF_swapped ==
    /\ pc = "L49"
    /\ \E m \in Maps2 :
          /\ heap' = Append(heap, InvertFst(StringMap(PairsOf(m), 1)))
          /\ hist' = [hist EXCEPT !.m = m]
    /\ env' = [env EXCEPT !.f = Fresh(1)]
    /\ pc' = "L53"
    /\ UNCHANGED <<sec, locals5, paths>>

\* lines 43-50: f = pynini.string_map(m); f is not cyclic
StringMapF ==
    /\ pc = "L49"
    /\ \E m \in Maps2 :
          /\ heap' = Append(heap, StringMap(PairsOf(m), 1))
          /\ hist' = [hist EXCEPT !.m = m]
          /\ ~IsCyclic(StringMap(PairsOf(m), 1))
    /\ env' = [env EXCEPT !.f = Fresh(1)]
    /\ pc' = "L53"
    /\ UNCHANGED <<sec, locals5, paths>>

\* line 53: paths = f.paths(output_token_type='utf8')
PathsF ==
    /\ pc = "L53"
    /\ paths' = PathsOf(Obj("f"))
    /\ hist' = [hist EXCEPT !.pass = 1]
    /\ pc' = "L54"
    /\ UNCHANGED <<sec, locals5, heap, env>>

\* one round of a loop over paths: the current path is read, then next()
ReadAndNext ==
    /\ ~PathsDone(paths)
    /\ hist' = [hist EXCEPT !.visits[hist.pass] = Append(@, PathsCurrent(paths)),
                            !.nexts[hist.pass] = @ + 1]
    /\ paths' = PathsNext(paths)
    /\ UNCHANGED <<sec, pc, locals5, heap, env>>

\* line 54: list(paths.istrings()), one string
IStringsYield == pc = "L54" /\ ReadAndNext

\* line 54: list(paths.istrings()) is complete
IStringsEnd ==
    /\ pc = "L54"
    /\ PathsDone(paths)
    /\ pc' = "L55"
    /\ UNCHANGED <<sec, locals5, objects>>

\* line 55: paths.reset()
ResetL55 ==
    /\ pc = "L55"
    /\ paths' = PathsReset(paths)
    /\ hist' = [hist EXCEPT !.pass = 2]
    /\ pc' = "L56"
    /\ UNCHANGED <<sec, locals5, heap, env>>

\* line 56: list(paths.ostrings()), one string
OStringsYield == pc = "L56" /\ ReadAndNext

\* line 56: list(paths.ostrings()) is complete
OStringsEnd ==
    /\ pc = "L56"
    /\ PathsDone(paths)
    /\ pc' = "L57"
    /\ UNCHANGED <<sec, locals5, objects>>

\* line 57 left out: the third pass starts where the second ended
ResetL57_skipped ==
    /\ pc = "L57"
    /\ hist' = [hist EXCEPT !.pass = 3]
    /\ pc' = "L58"
    /\ UNCHANGED <<sec, locals5, heap, env, paths>>

\* line 57: paths.reset()
ResetL57 ==
    /\ pc = "L57"
    /\ paths' = PathsReset(paths)
    /\ hist' = [hist EXCEPT !.pass = 3]
    /\ pc' = "L58"
    /\ UNCHANGED <<sec, locals5, heap, env>>

\* lines 58-64: while not paths.done(): print(...); paths.next()
LoopBody == pc = "L58" /\ ReadAndNext

\* line 58: paths.done() ends the loop
LoopExit ==
    /\ pc = "L58"
    /\ PathsDone(paths)
    /\ pc' = "L66"
    /\ UNCHANGED <<sec, locals5, objects>>

NextPaths ==
    \/ FstF \/ AccepS
    \/ StringMapF \/ PathsF \/ IStringsYield \/ IStringsEnd \/ ResetL55
    \/ OStringsYield \/ OStringsEnd \/ ResetL57 \/ LoopBody \/ LoopExit

SpecPaths == InitPaths /\ [][NextPaths]_vars

(***************************************************************************)
(* Properties of chapter_2.py.                                             *)
(***************************************************************************)
\* the pass j of the iterator is complete
PassDone(j) ==
    \/ j = 1 /\ pc \in {"L55", "L56", "L57", "L58", "L66"}
    \/ j = 2 /\ pc \in {"L57", "L58", "L66"}
    \/ j = 3 /\ pc = "L66"

\* the sequence s holds no element twice
NoRepeat(s) == \A x, y \in 1..Len(s) : s[x] = s[y] => x = y

\* C7: each of the three full passes over the acyclic, unmodified string
\* map makes no more next() calls than f has paths and visits no path
\* twice; when done() ends it, it has made one next() call for each path
\* of f, has visited each path of f exactly once, and in the order of the
\* other passes.
C7_FullPassesVisitEachPathOnceInOrder ==
    sec = 9 /\ pc \notin {"L10", "L14", "L49", "L53", "AssertionError"} =>
        LET all == PathSeq(Obj("f"))
        IN \A j \in 1..3 :
              /\ NoRepeat(hist.visits[j])
              /\ Range(hist.visits[j]) \subseteq Range(all)
              /\ hist.nexts[j] <= Len(all)
              /\ PassDone(j) =>
                    /\ Range(hist.visits[j]) = Range(all)
                    /\ Len(hist.visits[j]) = Len(all)
                    /\ hist.nexts[j] = Len(all)
                    /\ \A k \in 1..3 : PassDone(k) => hist.visits[k] = hist.visits[j]

\* the three passes over the script's own four pairs are complete
C7_Witness ==
    /\ sec = 9 /\ pc = "L66"
    /\ hist.m = <<1, 2, 3, 4>>
    /\ hist.nexts = <<4, 4, 4>>
    /\ Len(hist.visits[3]) = 4
    /\ IStrings(hist.visits[3]) =
          <<<<"A", "L">>, <<"A", "K">>, <<"A", "R">>, <<"A", "Z">>>>

(***************************************************************************)
(* Optimization (chapter_4.py, lines 31 and 41).                           *)
(***************************************************************************)
\* the automata that optimize() has been called on
Optimized4 ==
    (IF sec = 10 /\ pc = "done" THEN {Obj("t")} ELSE {})
    \cup (IF sec = 8 /\ pc \in {"L45", "L46", "done"} THEN {Obj("f")} ELSE {})

\* C11: optimizing the optimized transducer t of line 31, or the optimized
\* acceptor f of line 41, once more changes nothing: the same states, arcs
\* and weights.
C11_OptimizeIsIdempotent == \A A \in Optimized4 : Optimize(A) = A

\* the script's t, the union of all five, is optimized: 4 states for the
\* 14 it has after line 24
C11_Witness ==
    /\ sec = 10 /\ pc = "done"
    /\ Obj("t").ns = 4
    /\ Cardinality(Range(PathSeq(Obj("t")))) = 8

\* the output strings of the acceptor of s composed with the string map f
Lookup2(s) == Range(OStrings(PathSeq(ComposeFst(Accep(Letters(s), One), Obj("f")))))

\* C12: the acceptor of an input listed in m, composed with the string map
\* f of m, has exactly one output string: the output m pairs with it.
C12_LookupGivesThePairedOutput ==
    sec = 9 /\ pc \notin {"L10", "L14", "L49", "AssertionError"} =>
        \A k \in Range(hist.m) : Lookup2(Pairs2[k][1]) = {Letters(Pairs2[k][2])}

\* the script's four pairs, where "AL" gives "Alabama"
C12_Witness ==
    /\ sec = 9 /\ pc = "L53"
    /\ hist.m = <<1, 2, 3, 4>>
    /\ Lookup2("AL") = {<<"A", "l", "a", "b", "a", "m", "a">>}

\* C13: start() is NO_STATE_ID exactly for the automaton with no state,
\* which has no path; the literal of line 15 and the composition of a listed
\* input with the string map have a start state among their states, and the
\* composition of an unlisted input with the string map, which has no path,
\* has start NO_STATE_ID; neither assertion of lines 11 and 22 fails.
C13_StartIsNoStateIdExactlyWhenEmpty ==
    sec = 9 =>
        /\ pc # "AssertionError"
        /\ \A j \in 1..Len(heap) :
              /\ heap[j].start = NO_STATE_ID <=> heap[j].ns = 0
              /\ heap[j].start = NO_STATE_ID => PathSeq(heap[j]) = <<>>
              /\ heap[j].start # NO_STATE_ID => heap[j].start \in States(heap[j])
        /\ pc = "L14" => Obj("f").start = NO_STATE_ID
        /\ pc = "L49" => Obj("f").start \in States(Obj("f")) /\ PathSeq(Obj("f")) # <<>>
        /\ pc = "L53" =>
              \A k \in 1..Len(Pairs2) :
                 LET C == ComposeFst(Accep(Letters(Pairs2[k][1]), One), Obj("f"))
                 IN IF k \in Range(hist.m)
                    THEN C.start \in States(C) /\ PathSeq(C) # <<>>
                    ELSE C.start = NO_STATE_ID /\ PathSeq(C) = <<>>

\* the string map of AL and AK only: the composition with AL has a start
\* state, that with AZ has none, and the heap holds the empty Fst of line 10
C13_Witness ==
    /\ sec = 9 /\ pc = "L53"
    /\ hist.m = <<1, 2>>
    /\ heap[1].start = NO_STATE_ID
    /\ heap[2].start = 0 /\ heap[2].ns = 10
    /\ ComposeFst(Accep(<<"A", "L">>, One), Obj("f")).start # NO_STATE_ID
    /\ ComposeFst(Accep(<<"A", "Z">>, One), Obj("f")).start = NO_STATE_ID

(***************************************************************************)
(* Rewrite rules as transducers.  pynini.cdrewrite(tau, lam, rho, sigma)   *)
(* for a tau that is one label pair, a left context lam that is any        *)
(* acceptor over the alphabet and a right context rho that is the empty    *)
(* string or a union of single labels.  The left context is tracked by     *)
(* the deterministic automaton of sigma lam, read on the output for the    *)
(* left-to-right mode and on the input for the simultaneous mode; a state  *)
(* is a state of that automaton and an obligation on the next label:       *)
(* 0 none, 1 it is in rho (tau was applied), 2 it is not (tau was not).    *)
(***************************************************************************)
CdRewrite(tau, lam, rho, sigma, mode) ==
    LET from == Arcs(tau, tau.start)[1].il
        to   == Arcs(tau, tau.start)[1].ol
        Labels(labels) == SelectSeq(Chars, LAMBDA x : x \in labels)
        Build(D, ls, rhos) ==
            LET next == Table([d \in States(D) |->
                          Table([k \in 1..Len(ls) |->
                             (CHOOSE a \in Range(Arcs(D, d)) : a.il = ls[k]).nx])])
                WithTable(step, inRho, anyRho) ==
                    LET at(d, x)   == step[d][IndexOf(ls, x)]
                        num(d, g)  == 3 * d + g
                        after(d, i, o) == at(d, IF mode = "sim" THEN i ELSE o)
                        allowed(g, x) ==
                            g = 0 \/ (g = 1 /\ x \in inRho) \/ (g = 2 /\ x \notin inRho)
                        out(d, g, x) ==
                            IF ~allowed(g, x) THEN <<>>
                            ELSE IF x = from /\ Final(D, d) # Zero
                            THEN IF anyRho
                                 THEN <<Arc(x, to, One, num(after(d, x, to), 0))>>
                                 ELSE <<Arc(x, to, One, num(after(d, x, to), 1)),
                                        Arc(x, x, One, num(after(d, x, x), 2))>>
                            ELSE <<Arc(x, x, One, num(after(d, x, x), 0))>>
                    IN [ns    |-> 3 * D.ns,
                        start |-> num(D.start, 0),
                        fin   |-> [q \in 1..(3 * D.ns) |->
                                     IF (q - 1) % 3 = 1 THEN Zero ELSE One],
                        arcs  |-> [q \in 1..(3 * D.ns) |->
                                     Flatten([k \in 1..Len(ls) |->
                                        out((q - 1) \div 3, (q - 1) % 3, ls[k])])]]
            IN CHOOSE T \in {Connect(W) :
                    W \in {WithTable(step, {s[1] : s \in rhos \ {<<>>}}, <<>> \in rhos) :
                             step \in {next}}} : TRUE
    IN CHOOSE T \in
          {Build(D, ls, rhos) :
              D \in {DeterminizeFull(E) : E \in {RmEpsilon(ConcatFst(sigma, lam))}},
              ls \in {Labels(UNION {{a.il : a \in Range(Arcs(sigma, q))} :
                                       q \in States(sigma)} \ {Eps})},
              rhos \in {Range(IStrings(PathSeq(rho)))}} : TRUE

RECURSIVE UnionAll(_)
\* pynini.union(*args): the arguments joined from the left
UnionAll(S) ==
    IF Len(S) = 1 THEN S[1]
    ELSE UnionFst(UnionAll(SubSeq(S, 1, Len(S) - 1)), S[Len(S)])

\* pynini.union of single letters
UnionOfLetters(s) == UnionAll([k \in 1..Len(s) |-> Accep(<<s[k]>>, One)])

\* the output strings of an acyclic automaton
OutputStrings(A) == Range(OStrings(PathSeq(A)))

(***************************************************************************)
(* chapter_5.py, the functions after run_basics.  As in run_basics a run   *)
(* follows one function: sec 11 is run_cascade (lines 155-186), sec 12     *)
(* run_finnish_case_suffix (lines 375-417).                                *)
(***************************************************************************)
NamesR == {"sigma_star", "r1", "r2", "istring", "casc", "olattice", "harmony"}

\* lines 11-15
SPANISH_ALPHABET ==
    UnionOfLetters(<<"a", "á", "b", "c", "d", "e", "é", "f", "g", "h", "i", "í",
                     "j", "k", "l", "m", "n", "ñ", "o", "ó", "p", "q", "r", "s",
                     "t", "u", "ú", "ü", "v", "w", "x", "y", "z">>)

\* lines 145-152: the lattice composed with one rule after the other, each
\* result asserted to have a start state, projected to its output and
\* freed of epsilons
cascade_reversed(istring, rules) ==
    LET RECURSIVE Loop(_, _)
        Loop(lat, k) ==
            IF k < 1 THEN Ok(lat)
            ELSE CHOOSE r \in
                    {IF c.start = NO_STATE_ID THEN Raise("AssertionError")
                     ELSE CHOOSE x \in {Loop(o, k - 1) :
                                          o \in {RmEpsilon(ProjectOutput(c))}} : TRUE :
                     c \in {ComposeFst(lat, rules[k])}} : TRUE
    IN Loop(istring, Len(rules))

cascade(istring, rules) ==
    LET RECURSIVE Loop(_, _)
        Loop(lat, k) ==
            IF k > Len(rules) THEN Ok(lat)
            ELSE CHOOSE r \in
                    {IF c.start = NO_STATE_ID THEN Raise("AssertionError")
                     ELSE CHOOSE x \in {Loop(o, k + 1) :
                                          o \in {RmEpsilon(ProjectOutput(c))}} : TRUE :
                     c \in {ComposeFst(lat, rules[k])}} : TRUE
    IN Loop(istring, 1)

\* the words istring is made of (line 174 has the first two); the last has
\* a character that is not in the alphabet
WordsR ==
    << <<"c", "i", "m", "a">>, <<"e", "s", "c", "u", "d", "o">>,
       <<"c", "o", "c", "e", "r">>, <<"c", "e", "n", "a">>,
       <<"c", "i", "m", "a", "!">>, <<"Y", "o">> >>

InitR ==
    /\ sec \in {11, 12}
    /\ pc = IF sec = 11 THEN "L159" ELSE "L385"
    /\ heap = <<>>
    /\ env = [x \in NamesR |-> 0]
    /\ paths = None
    /\ hist = [cf |-> <<>>, form |-> None, again |-> None]
    /\ string = None /\ lattice3 = None /\ lattice8 = None
    /\ ostring3 = None /\ ostring8 = None /\ ostrings = None
    /\ lattice = None /\ state_threshold = None /\ det_lattice = None
    /\ there_are_ties = None /\ top = None /\ rewrites = None /\ matches = None

\* line 159: sigma_star = SPANISH_ALPHABET.closure().optimize()
SigmaStarC ==
    /\ sec = 11 /\ pc = "L159"
    /\ \E sigma \in {ClosureFst(SPANISH_ALPHABET, TRUE)} :
          heap' = Append(heap, Optimize(sigma))
    /\ env' = [env EXCEPT !.sigma_star = Fresh(1)]
    /\ pc' = "L160"
    /\ UNCHANGED <<sec, locals5, paths, hist>>

\* lines 160-171: r1 = cdrewrite(cross('c', 's'), '', union('i', 'e'),
\* sigma_star); r2 = cdrewrite(cross('c', 'k'), '', '', sigma_star)
RulesC ==
    /\ sec = 11 /\ pc = "L160"
    /\ \E r1 \in {CdRewrite(CrossFst(<<"c">>, <<"s">>), Accep(<<>>, One),
                            UnionOfLetters(<<"i", "e">>), Obj("sigma_star"), "ltr")},
          r2 \in {CdRewrite(CrossFst(<<"c">>, <<"k">>), Accep(<<>>, One),
                            Accep(<<>>, One), Obj("sigma_star"), "ltr")} :
          heap' = heap \o <<r1, r2>>
    /\ env' = [env EXCEPT !.r1 = Fresh(1), !.r2 = Fresh(2)]
    /\ pc' = "L174"
    /\ UNCHANGED <<sec, locals5, paths, hist>>

\* line 174: istring = pynini.accep('cima') | pynini.accep('escudo'), for
\* one or two of the words
IStringC ==
    /\ sec = 11 /\ pc = "L174"
    /\ \E a, b \in 1..Len(WordsR) :
          /\ a <= b
          /\ heap' = Append(heap, IF a = b THEN Accep(WordsR[a], One)
                                  ELSE UnionFst(Accep(WordsR[a], One),
                                                Accep(WordsR[b], One)))
    /\ env' = [env EXCEPT !.istring = Fresh(1)]
    /\ pc' = "L175"
    /\ UNCHANGED <<sec, locals5, paths, hist>>

\* lines 175-176: casc = r1 @ r2; olattice = istring @ casc
ComposeC ==
    /\ sec = 11 /\ pc = "L175"
    /\ \E casc \in {ComposeFst(Obj("r1"), Obj("r2"))} :
          \E olattice \in {ComposeFst(Obj("istring"), casc)} :
             heap' = heap \o <<casc, olattice>>
    /\ env' = [env EXCEPT !.casc = Fresh(1), !.olattice = Fresh(2)]
    /\ pc' = "L177"
    /\ UNCHANGED <<sec, locals5, paths, hist>>

\* lines 177-178: olattice.optimize(); ostrings = list(olattice.paths().ostrings())
OStringsC ==
    /\ sec = 11 /\ pc = "L177"
    /\ \E olattice \in {Optimize(Obj("olattice"))} :
          /\ heap' = [heap EXCEPT ![env.olattice] = olattice]
          /\ ostrings' = OStrings(PathSeq(olattice))
    /\ pc' = "L182"
    /\ UNCHANGED <<sec, string, lattice3, lattice8, ostring3, ostring8, lattice,
                   state_threshold, det_lattice, there_are_ties, top, rewrites,
                   matches, env, paths, hist>>

\* line 182: olattice = cascade(istring, [r1, r2])
CascadeC ==
    /\ sec = 11 /\ pc = "L182"
    /\ \E r \in {cascade(Obj("istring"), <<Obj("r1"), Obj("r2")>>)} :
          IF r.err # ""
          THEN pc' = r.err /\ UNCHANGED <<heap, env>>
          ELSE /\ heap' = Append(heap, r.val)
               /\ env' = [env EXCEPT !.olattice = Fresh(1)]
               /\ pc' = "L183"
    /\ UNCHANGED <<sec, locals5, paths, hist>>

\* lines 183-184: olattice.optimize(); ostrings = list(olattice.paths().ostrings())
OStringsLoop ==
    /\ sec = 11 /\ pc = "L183"
    /\ \E olattice \in {Optimize(Obj("olattice"))} :
          /\ heap' = [heap EXCEPT ![env.olattice] = olattice]
          /\ ostrings' = OStrings(PathSeq(olattice))
    /\ pc' = "done"
    /\ UNCHANGED <<sec, string, lattice3, lattice8, ostring3, ostring8, lattice,
                   state_threshold, det_lattice, there_are_ties, top, rewrites,
                   matches, env, paths, hist>>

\* rewrite.one_top_rewrite(string, rule) for a rule transducer: the
\* composition, an error when it is empty, its output lattice, the optimal
\* paths and their one string
OneTopRewriteT(s, T) ==
    CHOOSE r \in
       {IF l.start = NO_STATE_ID THEN Raise("CompositionFailure")
        ELSE CHOOSE x \in {LatticeToOneTopString(d) :
                             d \in {LatticeToDfa(o, TRUE) :
                                      o \in {RmEpsilon(ProjectOutput(l))}}} : TRUE :
        l \in {ComposeFst(Accep(s, One), T)}} : TRUE

\* lines 377-384: the classes of letters
finnish ==
    [back    |-> <<"a", "o", "u">>,
     front   |-> <<"ä", "ö", "y">>,
     neutral |-> <<"e", "i">>,
     c       |-> <<"b", "c", "d", "f", "g", "h", "j", "k", "l", "m",
                   "n", "p", "q", "r", "s", "t", "v", "w", "x", "z">>]

\* citation forms: the two of lines 415-416 and others over the alphabet
Stems ==
    << <<"v", "e", "r", "o">>, <<"k", "e", "s", "y">>, <<"t", "a", "l", "o">>,
       <<"k", "y", "l", "ä">>, <<"t", "i", "e">>, <<"m", "e", "r", "i">>,
       <<"k", "a", "t", "u">>, <<"p", "ö", "y", "t", "ä">>,
       <<"a", "f", "ä", "ä", "r", "i">>, <<"o", "l", "y", "m", "p", "i", "a">>,
       <<"t", "y", "t", "t", "ö">>, <<"h", "o", "t", "e", "l", "l", "i">> >>

\* lines 377-385: sigma_star = pynini.union(v, c).closure()
SigmaStarH ==
    /\ sec = 12 /\ pc = "L385"
    /\ LET back    == UnionOfLetters(finnish.back)
           front   == UnionOfLetters(finnish.front)
           neutral == UnionOfLetters(finnish.neutral)
           v       == UnionAll(<<back, front, neutral, Accep(<<"A">>, One)>>)
       IN heap' = Append(heap, ClosureFst(UnionFst(v, UnionOfLetters(finnish.c)), TRUE))
    /\ env' = [env EXCEPT !.sigma_star = Fresh(1)]
    /\ pc' = "L390"
    /\ UNCHANGED <<sec, locals5, paths, hist>>

\* lines 390-402 with the left context of r1 a back vowel only
RulesH_back_only ==
    /\ sec = 12 /\ pc = "L390"
    /\ \E r1 \in {CdRewrite(CrossFst(<<"A">>, <<"a">>), UnionOfLetters(finnish.back),
                            Accep(<<>>, One), Obj("sigma_star"), "ltr")},
          r2 \in {CdRewrite(CrossFst(<<"A">>, <<"ä">>), Accep(<<>>, One),
                            Accep(<<>>, One), Obj("sigma_star"), "ltr")} :
          heap' = heap \o <<r1, r2>>
    /\ env' = [env EXCEPT !.r1 = Fresh(1), !.r2 = Fresh(2)]
    /\ pc' = "L403"
    /\ UNCHANGED <<sec, locals5, paths, hist>>

\* lines 390-402: r1 = cdrewrite(cross('A', 'a'), back + union(neutral,
\* c).closure(), '', sigma_star); r2 = cdrewrite(cross('A', 'ä'), '', '',
\* sigma_star)
RulesH ==
    /\ sec = 12 /\ pc = "L390"
    /\ LET left == ConcatFst(UnionOfLetters(finnish.back),
                             ClosureFst(UnionFst(UnionOfLetters(finnish.neutral),
                                                 UnionOfLetters(finnish.c)), TRUE))
       IN \E r1 \in {CdRewrite(CrossFst(<<"A">>, <<"a">>), left, Accep(<<>>, One),
                               Obj("sigma_star"), "ltr")},
             r2 \in {CdRewrite(CrossFst(<<"A">>, <<"ä">>), Accep(<<>>, One),
                               Accep(<<>>, One), Obj("sigma_star"), "ltr")} :
             heap' = heap \o <<r1, r2>>
    /\ env' = [env EXCEPT !.r1 = Fresh(1), !.r2 = Fresh(2)]
    /\ pc' = "L403"
    /\ UNCHANGED <<sec, locals5, paths, hist>>

\* lines 403-406: harmony = r1 @ r2; harmony.optimize(); the two
\* assertions
HarmonyH ==
    /\ sec = 12 /\ pc = "L403"
    /\ \E harmony \in {Optimize(ComposeFst(Obj("r1"), Obj("r2")))} :
          /\ heap' = Append(heap, harmony)
          /\ pc' = IF \A k \in 1..2 :
                         OneTopRewriteT(Stems[k] \o <<"l", "l", "A">>, harmony)
                            = Ok(<<<<"v", "e", "r", "o", "l", "l", "a">>,
                                   <<"k", "e", "s", "y", "l", "l", "ä">>>>[k])
                   THEN "L415" ELSE "AssertionError"
    /\ env' = [env EXCEPT !.harmony = Fresh(1)]
    /\ UNCHANGED <<sec, locals5, paths, hist>>

\* lines 408-413 as called in lines 415-416: adessive(cf) is
\* rewrite.one_top_rewrite(cf + 'llA', harmony)
AdessiveH ==
    /\ sec = 12 /\ pc = "L415"
    /\ \E k \in 1..Len(Stems) :
          \E r \in {OneTopRewriteT(Stems[k] \o <<"l", "l", "A">>, Obj("harmony"))} :
             /\ hist' = [hist EXCEPT !.cf = Stems[k], !.form = r.val]
             /\ pc' = IF r.err # "" THEN r.err ELSE "L415b"
    /\ UNCHANGED <<sec, locals5, heap, env, paths>>

\* lines 415-416: rewrite.one_top_rewrite(adessive(cf), harmony), asserted
\* to be 'verolla' for 'vero' and 'kesyllä' for 'kesy'
AgainH ==
    /\ sec = 12 /\ pc = "L415b"
    /\ \E r \in {OneTopRewriteT(hist.form, Obj("harmony"))} :
          /\ hist' = [hist EXCEPT !.again = r.val]
          /\ pc' = IF r.err # "" THEN r.err
                   ELSE IF \/ /\ hist.cf = Stems[1]
                              /\ r.val # <<"v", "e", "r", "o", "l", "l", "a">>
                           \/ /\ hist.cf = Stems[2]
                              /\ r.val # <<"k", "e", "s", "y", "l", "l", "ä">>
                   THEN "AssertionError" ELSE "done"
    /\ UNCHANGED <<sec, locals5, heap, env, paths>>

NextR ==
    \/ SigmaStarC \/ RulesC \/ IStringC \/ ComposeC \/ OStringsC \/ CascadeC
    \/ OStringsLoop
    \/ SigmaStarH \/ RulesH \/ HarmonyH \/ AdessiveH \/ AgainH

SpecR == InitR /\ [][NextR]_vars

(***************************************************************************)
(* Properties of run_cascade and run_finnish_case_suffix.                  *)
(***************************************************************************)
\* C17: when cascade returns, its lattice has exactly the output strings
\* of istring @ (r1 @ r2), before and after optimization; it raises
\* AssertionError exactly when the composed transducer gives the empty
\* lattice, which is when no word of istring is over the alphabet.
C17_CascadeMatchesCompositionWhenItReturns ==
    sec = 11 =>
        /\ pc = "L182" =>
              (cascade(Obj("istring"), <<Obj("r1"), Obj("r2")>>).err # ""
                  <=> ostrings = <<>>)
        /\ pc = "L183" =>
              /\ ostrings # <<>>
              /\ OutputStrings(Obj("olattice")) = Range(ostrings)
              /\ OutputStrings(Obj("olattice"))
                    = OutputStrings(ComposeFst(Obj("istring"), Obj("casc")))
        /\ pc = "done" =>
              Range(ostrings) = OutputStrings(ComposeFst(Obj("istring"), Obj("casc")))
        /\ pc = "AssertionError" =>
              /\ ostrings = <<>>
              /\ Obj("olattice").start = NO_STATE_ID
              /\ ComposeFst(Obj("istring"), Obj("casc")).start = NO_STATE_ID

\* the script's own input: cascade has returned a lattice of sima and
\* eskudo, the strings of the composition
C17_Witness ==
    /\ sec = 11 /\ pc = "L183"
    /\ OutputStrings(Obj("istring")) = {WordsR[1], WordsR[2]}
    /\ Range(ostrings) = {<<"s", "i", "m", "a">>, <<"e", "s", "k", "u", "d", "o">>}
    /\ OutputStrings(Obj("olattice")) = Range(ostrings)

\* C17 as stated, for every input acceptor: after line 182 cascade has
\* returned a lattice with the output strings of istring @ (r1 @ r2)
C17_CascadeMatchesCompositionForEveryInput ==
    (sec = 11 /\ pc \notin {"L159", "L160", "L174", "L175", "L177", "L182"}) =>
        /\ pc \in {"L183", "done"}
        /\ OutputStrings(Obj("olattice"))
              = OutputStrings(ComposeFst(Obj("istring"), Obj("casc")))

\* the vowel the claim gives the suffix of the stem cf: a when the last
\* back or front vowel of cf is a back vowel
SuffixVowel(cf) ==
    LET hv == SelectSeq(cf, LAMBDA x : x \in Range(finnish.back) \cup Range(finnish.front))
    IN IF hv # <<>> /\ hv[Len(hv)] \in Range(finnish.back) THEN "a" ELSE "ä"

\* C14: for every stem cf over the alphabet, harmony rewrites cf + llA to
\* exactly one string, cf + ll + a when the last harmonic vowel of cf is a
\* back vowel and cf + ll + ä otherwise; rewriting that string again gives
\* the same string; no rewrite fails and no assertion of lines 405-416
\* fails.
C14_HarmonyChoosesTheSuffixVowel ==
    sec = 12 =>
        /\ pc \notin {"AssertionError", "CompositionFailure", "AmbiguousTie"}
        /\ pc \in {"L415b", "done"} =>
              /\ hist.form = hist.cf \o <<"l", "l", SuffixVowel(hist.cf)>>
              /\ OutputStrings(ComposeFst(Accep(hist.cf \o <<"l", "l", "A">>, One),
                                          Obj("harmony"))) = {hist.form}
        /\ pc = "done" => hist.again = hist.form

\* kesy gives kesyllä, and kesyllä again gives kesyllä
C14_Witness ==
    /\ sec = 12 /\ pc = "done"
    /\ hist.cf = <<"k", "e", "s", "y">>
    /\ hist.form = <<"k", "e", "s", "y", "l", "l", "ä">>
    /\ hist.again = hist.form

(***************************************************************************)
(* chapter_5.py: exclude, priority_union and run_exclusion (section 13).   *)
(* The alphabet is cut to the vowels e, o, u and the consonants c, d, h,   *)
(* r, s, x, y, and the irregular plurals to those written with them.       *)
(***************************************************************************)
\* lines 189-196: the output lattice of the first rule whose composition
\* with istring has a start state, None when the loop runs out.  An
\* Optional[Fst] is a sequence: <<>> for None, <<f>> for the Fst f
exclude(istring, rules) ==
    LET RECURSIVE Loop(_)
        Loop(k) ==
            IF k > Len(rules) THEN <<>>
            ELSE CHOOSE r \in {IF l.start = NO_STATE_ID THEN Loop(k + 1)
                               ELSE <<RmEpsilon(ProjectOutput(l))>> :
                                 l \in {ComposeFst(istring, rules[k])}} : TRUE
    IN Loop(1)

\* lines 199-206 without the difference: the plain union of mu and nu
priority_union_plain(mu, nu, sigma) == UnionFst(mu, ComposeFst(sigma, nu))

\* lines 199-206: nu_not_mu = (sigma_star - project(mu, 'input')) @ nu, and
\* mu | nu_not_mu
priority_union(mu, nu, sigma) ==
    CHOOSE r \in {UnionFst(mu, nu_not_mu) :
                    nu_not_mu \in {ComposeFst(d, nu) :
                                     d \in {DifferenceFst(sigma, ProjectInput(mu))}}} : TRUE

NamesX == {"irregular", "ies_rule", "es_rule", "s_rule", "sigma_star", "rule", "istring",
           "olattice"}

\* line 243: the lists of input strings tried, the script's own inputs in
\* the first as far as the alphabet has them
InputLists ==
    << << <<"d", "e", "e", "r">>, <<"c", "h", "u", "r", "c", "h">>,
          <<"d", "r", "y">>, <<"f", "o", "l", "d">>, <<"o", "x">>,
          <<"r", "o", "d">>, <<>>, <<"h", "o", "y">>,
          <<"c", "r", "e", "s", "s">>, <<"r", "u", "s", "h">>,
          <<"d", "y", "e">>, <<"c", "r", "y">>, <<"x">>,
          <<"o", "x", "y">>, <<"c", "o", "d">>, <<"h", "e", "x">>,
          <<"s", "u", "c", "h">>, <<"e", "y", "e">>,
          <<"u", "s", "e", "r">>, <<"h", "e", "r", "d">>,
          <<"y", "e", "s">>, <<"s", "h", "o", "e">>, <<"c", "u", "e">> >>,
       << <<"y">>, <<"s">>, <<"s", "y">>, <<"d", "e", "e", "r", "s">>,
          <<"o", "x", "o">>, <<"d", "r", "e", "s", "s">>,
          <<"s", "h", "e", "e", "p">>, <<"c", "r", "u", "x">>,
          <<"d", "o", "c", "s">>, <<"e", "u", "r", "o">>,
          <<"s", "h", "y">>, <<"c", "h", "e", "s", "s">>,
          <<"o", "u", "c", "h">>, <<"r", "y", "e">>,
          <<"d", "e", "e", "r", "y">>, <<"c", "h">>, <<"r", "e", "d">>,
          <<"h", "e", "r">>, <<"d", "o", "d", "o">>, <<"r", "e", "x">>,
          <<"e", "c", "h", "o">>, <<"h", "o", "r", "s", "e">>,
          <<"c", "o", "r", "e">> >> >>

InitX ==
    /\ sec = 13
    /\ pc = "L213"
    /\ heap = <<>>
    /\ env = [x \in NamesX |-> 0]
    /\ paths = None
    /\ hist = [inputs |-> <<>>, i |-> 0, olattice |-> <<>>, ex |-> <<>>, pu |-> 0]
    /\ string = None /\ lattice3 = None /\ lattice8 = None
    /\ ostring3 = None /\ ostring8 = None /\ ostrings = None
    /\ lattice = None /\ state_threshold = None /\ det_lattice = None
    /\ there_are_ties = None /\ top = None /\ rewrites = None /\ matches = None

\* lines 213-240: irregular, v, c, sigma_star, ies_rule, sibilant, es_rule
\* and s_rule
RulesX ==
    /\ sec = 13 /\ pc = "L213"
    /\ \E irregular \in {UnionFst(Accep(<<"d", "e", "e", "r">>, One),
                                  CrossFst(<<"o", "x">>, <<"o", "x", "e", "n">>))},
          vowels \in {UnionOfLetters(<<"e", "o", "u">>)},
          consonants \in {UnionOfLetters(<<"c", "d", "h", "r", "s", "x", "y">>)},
          sibilant \in {UnionAll(<<Accep(<<"s">>, One), Accep(<<"s", "h">>, One),
                                   Accep(<<"c", "h">>, One), Accep(<<"x">>, One),
                                   Accep(<<"z">>, One)>>)} :
          \E sigma \in {Optimize(ClosureFst(UnionFst(vowels, consonants), TRUE))} :
             heap' = <<irregular,
                       ConcatFst(ConcatFst(sigma, consonants),
                                 CrossFst(<<"y">>, <<"i", "e", "s">>)),
                       ConcatFst(ConcatFst(sigma, sibilant), CrossFst(<<>>, <<"e", "s">>)),
                       ConcatFst(sigma, CrossFst(<<>>, <<"s">>)),
                       sigma>>
    /\ env' = [env EXCEPT !.irregular = 1, !.ies_rule = 2, !.es_rule = 3, !.s_rule = 4,
                          !.sigma_star = 5]
    /\ pc' = "L243"
    /\ UNCHANGED <<sec, locals5, paths, hist>>

\* line 243: inputs
InputsX ==
    /\ sec = 13 /\ pc = "L243"
    /\ \E n \in 1..Len(InputLists) : hist' = [hist EXCEPT !.inputs = InputLists[n], !.i = 1]
    /\ pc' = "L245"
    /\ UNCHANGED <<sec, locals5, heap, env, paths>>

\* lines 244-246: the next s of inputs, istring and olattice
ExcludeX ==
    /\ sec = 13 /\ pc = "L245"
    /\ hist.i <= Len(hist.inputs)
    /\ \E istring \in {Accep(hist.inputs[hist.i], One)} :
          /\ heap' = Append(heap, istring)
          /\ hist' = [hist EXCEPT !.olattice =
                         exclude(istring, <<Obj("irregular"), Obj("ies_rule"),
                                            Obj("es_rule"), Obj("s_rule")>>)]
    /\ env' = [env EXCEPT !.istring = Fresh(1)]
    /\ pc' = "L247"
    /\ UNCHANGED <<sec, locals5, paths>>

\* lines 247-251: the output strings are listed when olattice is an Fst,
\* "No output" is printed when it is None
PrintX ==
    /\ sec = 13 /\ pc = "L247"
    /\ ostrings' = IF hist.olattice # <<>> THEN OStrings(PathSeq(hist.olattice[1]))
                   ELSE ostrings
    /\ hist' = [hist EXCEPT !.i = @ + 1,
                            !.ex = Append(@, IF hist.olattice # <<>>
                                             THEN OutputStrings(hist.olattice[1])
                                             ELSE {})]
    /\ pc' = "L245"
    /\ UNCHANGED <<sec, string, lattice3, lattice8, ostring3, ostring8, lattice,
                   state_threshold, det_lattice, there_are_ties, top, rewrites, matches,
                   heap, env, paths>>

\* lines 256-263, one call of priority_union, the innermost first: es_rule
\* over s_rule, ies_rule over that, irregular over that
PriorityUnionX ==
    /\ sec = 13 /\ pc = "L245"
    /\ hist.i > Len(hist.inputs)
    /\ hist.pu < 3
    /\ \E r \in {priority_union(Obj(<<"es_rule", "ies_rule", "irregular">>[hist.pu + 1]),
                                IF hist.pu = 0 THEN Obj("s_rule") ELSE heap[Len(heap)],
                                Obj("sigma_star"))} :
          heap' = Append(heap, r)
    /\ hist' = [hist EXCEPT !.pu = @ + 1]
    /\ UNCHANGED <<sec, pc, locals5, env, paths>>

\* line 264: rule is the outermost union, optimized
OptimizeRuleX ==
    /\ sec = 13 /\ pc = "L245"
    /\ hist.pu = 3
    /\ \E r \in {Optimize(heap[Len(heap)])} : heap' = Append(heap, r)
    /\ env' = [env EXCEPT !.rule = Fresh(1)]
    /\ pc' = "L265"
    /\ UNCHANGED <<sec, locals5, paths, hist>>

\* lines 265-267: istring is the union of the inputs, olattice its
\* composition with rule, ostrings the output strings
ApplyRuleX ==
    /\ sec = 13 /\ pc = "L265"
    /\ \E istring \in {UnionAll([k \in 1..Len(hist.inputs) |->
                                    Accep(hist.inputs[k], One)])} :
          \E olattice \in {ComposeFst(istring, Obj("rule"))} :
             /\ heap' = heap \o <<istring, olattice>>
             /\ ostrings' = OStrings(PathSeq(olattice))
    /\ env' = [env EXCEPT !.istring = Fresh(1), !.olattice = Fresh(2)]
    /\ pc' = "done"
    /\ UNCHANGED <<sec, string, lattice3, lattice8, ostring3, ostring8, lattice,
                   state_threshold, det_lattice, there_are_ties, top, rewrites, matches,
                   paths, hist>>

NextX ==
    \/ RulesX \/ InputsX \/ ExcludeX \/ PrintX
    \/ PriorityUnionX \/ OptimizeRuleX \/ ApplyRuleX

SpecX == InitX /\ [][NextX]_vars

(***************************************************************************)
(* Properties of run_exclusion.                                            *)
(***************************************************************************)
\* the plurals of the word s as English has them within the alphabet: the
\* irregular one, -ies for a consonant and y, -es after a sibilant, -s
\* otherwise; none when s has a letter outside the alphabet
Plural(s) ==
    LET n == Len(s)
        consonants == {"c", "d", "h", "r", "s", "x", "y"}
    IN IF s = <<"d", "e", "e", "r">> THEN {s}
       ELSE IF s = <<"o", "x">> THEN {<<"o", "x", "e", "n">>}
       ELSE IF \E k \in 1..n : s[k] \notin consonants \cup {"e", "o", "u"} THEN {}
       ELSE IF n >= 2 /\ s[n] = "y" /\ s[n - 1] \in consonants
            THEN {SubSeq(s, 1, n - 1) \o <<"i", "e", "s">>}
       ELSE IF \/ n >= 1 /\ s[n] \in {"s", "x"}
               \/ n >= 2 /\ s[n] = "h" /\ s[n - 1] \in {"s", "c"}
            THEN {s \o <<"e", "s">>}
       ELSE {s \o <<"s">>}

\* the output strings of the transducer T for the input string s
OutputsFor(s, T) == OutputStrings(ComposeFst(Accep(s, One), T))

\* C16: a priority union gives an input of mu's domain the outputs of mu
\* and no others, and an input of sigma_star outside that domain the
\* outputs of nu; exclude returns the lattice of the first rule that
\* accepts the input and None when none does; and the optimized nested
\* priority union of irregular, ies_rule, es_rule and s_rule gives every
\* input the output strings exclude gives it, none where exclude returns
\* None
C16_PriorityUnionAgreesWithExclude ==
    sec = 13 =>
        /\ pc = "L247" =>
              \E s \in {hist.inputs[hist.i]},
                 rules \in {<<Obj("irregular"), Obj("ies_rule"), Obj("es_rule"),
                              Obj("s_rule")>>} :
                 \E app \in {{k \in 1..4 : Accepts(rules[k], s)}} :
                    /\ hist.olattice = <<>> <=> app = {}
                    /\ hist.olattice # <<>> =>
                          /\ OutputStrings(hist.olattice[1])
                                = OutputsFor(s, rules[CHOOSE k \in app :
                                                        \A j \in app : k <= j])
                          /\ OutputStrings(hist.olattice[1]) = Plural(s)
        /\ (pc = "L245" /\ hist.pu >= 1) =>
              \E mu \in {Obj(<<"es_rule", "ies_rule", "irregular">>[hist.pu])},
                 nu \in {heap[IF hist.pu = 1 THEN env.s_rule ELSE Len(heap) - 1]},
                 pu \in {heap[Len(heap)]} :
                 \A k \in 1..Len(hist.inputs) :
                    \E s \in {hist.inputs[k]} :
                       OutputsFor(s, pu)
                          = IF Accepts(mu, s) THEN OutputsFor(s, mu)
                            ELSE IF Accepts(Obj("sigma_star"), s) THEN OutputsFor(s, nu)
                            ELSE {}
        /\ pc = "done" =>
              /\ Len(hist.ex) = Len(hist.inputs)
              /\ \A k \in 1..Len(hist.inputs) :
                    /\ OutputsFor(hist.inputs[k], Obj("rule")) = hist.ex[k]
                    /\ hist.ex[k] = Plural(hist.inputs[k])
              /\ Range(ostrings) = UNION {hist.ex[k] : k \in 1..Len(hist.inputs)}

\* run_exclusion has ended for the script's inputs: deer keeps its
\* irregular plural, church takes -es, dry takes -ies, ox is irregular, rod
\* takes -s and fold, outside the alphabet, has no output
C16_Witness ==
    /\ sec = 13 /\ pc = "done"
    /\ hist.inputs = InputLists[1]
    /\ hist.pu = 3
    /\ hist.ex[1] = {<<"d", "e", "e", "r">>}
    /\ hist.ex[2] = {<<"c", "h", "u", "r", "c", "h", "e", "s">>}
    /\ hist.ex[3] = {<<"d", "r", "i", "e", "s">>}
    /\ hist.ex[4] = {}
    /\ hist.ex[5] = {<<"o", "x", "e", "n">>}
    /\ <<"r", "o", "d", "s">> \in Range(ostrings)
    /\ <<"d", "e", "e", "r", "s">> \notin Range(ostrings)
    /\ <<"o", "x", "e", "s">> \notin Range(ostrings)

====
